---- MODULE Spec2Model ----
(***************************************************************************)
(* Model of the LLM reconciliation / merge pipeline of                     *)
(* src/llm/llama3.2_3b.py (correction pass, merge engine, batch loop), of  *)
(* the answer parser of src/llm/test.py and of the Task Expander and       *)
(* extract_from_pdf of src/shared/ScanDocument.py.                         *)
(*                                                                         *)
(* Strings are sequences of one-character strings, so that lower(),        *)
(* strip() and the code-point order used by sorted() are computed and not  *)
(* assumed.  An ISO date string is represented by its day ordinal (the     *)
(* order of ISO strings is the order of the days); 0 is the empty string   *)
(* "", which is falsy and sorts below every date.                          *)
(***************************************************************************)
EXTENDS Integers, Sequences, FiniteSets, TLC

VARIABLES
    \* complexity step function, both copies (SpecK)
    task_count, suggested, kompleksitas_pp, kompleksitas_merge, k_done,
    \* extract_with_llm / post_process_result (SpecPP)
    json_data, response, result, pp_pc,
    \* merge_and_group_by_person (SpecMerge)
    existing_data, new_data, final_results, remerged, merge_pc,
    \* batch run, __main__ (Spec): the input folder and the two persisted files
    folder, tracking_file, output_file,
    \* batch run: the locals of __main__ and the per-document report it prints
    pc, processed_data, unprocessed_files, existing_results, all_new_data,
    processed_count, idx, report, runs,
    \* batch run: the two persisted files as the run found them, and the file
    \* operations and extraction calls of the run in the order they were made
    disk_at_start, io_log,
    \* history: the key and the task names of each summary that a recorded
    \* document gave when it was last processed
    summaries_by_hash,
    \* ScanDocument.py, extract_from_pdf and _expand_tasks_by_resource
    \* (SpecScan): the parsed lines, the task dicts, the dicts and lists they
    \* refer to, what the two methods returned, and the caller's later change
    scan_input, scan_tasks, scan_expanded, scan_result, scan_heap,
    scan_heap_before, scan_mutated, scan_pc,
    \* ScanDocument.py, try_parse_date (SpecDate): the string and the result
    date_input, date_result, date_pc,
    \* ScanDocument.py, the trailing tokens of a task line (SpecTokens)
    line_remaining, line_predecessors, line_resources, tokens_pc,
    \* test.py, extract_project_data_with_llm (SpecTest): the text of the
    \* document, the answer of extract_with_ollama, and what is returned
    ocr_text, llm_answer, test_result, test_pc

kvars == <<task_count, suggested, kompleksitas_pp, kompleksitas_merge, k_done>>
ppvars == <<json_data, response, result, pp_pc>>
mvars == <<existing_data, new_data, final_results, remerged, merge_pc>>
diskvars == <<folder, tracking_file, output_file>>
runvars ==
    <<pc, processed_data, unprocessed_files, existing_results, all_new_data,
      processed_count, idx, report, runs, disk_at_start, io_log,
      summaries_by_hash>>
bvars == <<diskvars, runvars>>
scanvars ==
    <<scan_input, scan_tasks, scan_expanded, scan_result, scan_heap,
      scan_heap_before, scan_mutated, scan_pc>>
datevars == <<date_input, date_result, date_pc>>
tokenvars == <<line_remaining, line_predecessors, line_resources, tokens_pc>>
testvars == <<ocr_text, llm_answer, test_result, test_pc>>
vars == <<kvars, ppvars, mvars, bvars, scanvars, datevars, tokenvars, testvars>>

(***************************************************************************)
(* Bounds                                                                  *)
(***************************************************************************)
MaxCount == 17        \* largest task count given to the step function
MaxSuggest == 6       \* largest complexity the model may suggest
MaxTasks == 3         \* canonical tasks per document
MaxModelEntries == 2  \* person entries in one model answer
MaxEntries == 4       \* dataset entries given to one merge (both sides together)
MaxRuns == 2          \* batch runs in a row
MaxFiles == 3         \* files in the input folder
MaxLines == 2         \* task lines of one scanned document
MaxNames == 3         \* names joined by commas in one token
MaxPersons == 2       \* person summaries in one answer of the model (test.py)
MaxOcrLines == 2      \* lines of the text of one document (test.py)

(***************************************************************************)
(* Strings                                                                 *)
(***************************************************************************)
\* code point of a character (ord)
Ord(c) ==
    CASE c = " " -> 32
      [] c = "A" -> 65 [] c = "B" -> 66 [] c = "L" -> 76 [] c = "O" -> 79
      [] c = "P" -> 80 [] c = "Q" -> 81 [] c = "T" -> 84 [] c = "U" -> 85
      [] c = "a" -> 97 [] c = "b" -> 98 [] c = "l" -> 108 [] c = "o" -> 111
      [] c = "p" -> 112 [] c = "q" -> 113 [] c = "t" -> 116 [] c = "u" -> 117
      [] c = "x" -> 120 [] c = "z" -> 122

LowerChar(c) ==
    CASE c = "A" -> "a" [] c = "B" -> "b" [] c = "C" -> "c" [] c = "D" -> "d"
      [] c = "E" -> "e" [] c = "F" -> "f" [] c = "G" -> "g" [] c = "H" -> "h"
      [] c = "I" -> "i" [] c = "J" -> "j" [] c = "K" -> "k" [] c = "L" -> "l"
      [] c = "M" -> "m" [] c = "N" -> "n" [] c = "O" -> "o" [] c = "P" -> "p"
      [] c = "Q" -> "q" [] c = "R" -> "r" [] c = "S" -> "s" [] c = "T" -> "t"
      [] c = "U" -> "u" [] c = "V" -> "v" [] c = "W" -> "w" [] c = "X" -> "x"
      [] c = "Y" -> "y" [] c = "Z" -> "z"
      [] OTHER -> c

\* str.lower()
Lower(s) == [i \in 1..Len(s) |-> LowerChar(s[i])]

RECURSIVE LStrip(_)
LStrip(s) == IF s # <<>> /\ Head(s) = " " THEN LStrip(Tail(s)) ELSE s

RECURSIVE RStrip(_)
RStrip(s) ==
    IF s # <<>> /\ s[Len(s)] = " " THEN RStrip(SubSeq(s, 1, Len(s) - 1)) ELSE s

\* str.strip()
Strip(s) == RStrip(LStrip(s))

\* a < b for Python strings (lexicographic on code points)
RECURSIVE StrLt(_, _)
StrLt(a, b) ==
    IF b = <<>> THEN FALSE
    ELSE IF a = <<>> THEN TRUE
    ELSE IF Head(a) = Head(b) THEN StrLt(Tail(a), Tail(b))
    ELSE Ord(Head(a)) < Ord(Head(b))

StrLe(a, b) == a = b \/ StrLt(a, b)

(***************************************************************************)
(* Lists and dicts                                                         *)
(***************************************************************************)
Range(s) == {s[i] : i \in 1..Len(s)}

SeqsUpTo(S, n) == UNION {[1..k -> S] : k \in 0..n}

\* dict.get(k, default)
Get(d, k, default) == IF k \in DOMAIN d THEN d[k] ELSE default

\* min() / max() of a non-empty list of dates
PyMin(s) == CHOOSE d \in Range(s) : \A e \in Range(s) : d <= e
PyMax(s) == CHOOSE d \in Range(s) : \A e \in Range(s) : d >= e

\* Python None, as a value that can be compared with a dict
None == [none |-> TRUE]

\* an exception leaving a function
Raised == [raised |-> TRUE]

(***************************************************************************)
(* Complexity step function: the two copies in the source                  *)
(***************************************************************************)
\* post_process_result, "Calculate kompleksitas correctly"
KompleksitasPostProcess(count) ==
    IF count >= 15 THEN 5
    ELSE IF count >= 10 THEN 4
    ELSE IF count >= 5 THEN 3
    ELSE IF count >= 2 THEN 2
    ELSE 1

\* the merge copy with its top threshold off by one
KompleksitasMergeOffByOne(count) ==
    IF count > 15 THEN 5
    ELSE IF count >= 10 THEN 4
    ELSE IF count >= 5 THEN 3
    ELSE IF count >= 2 THEN 2
    ELSE 1

\* merge_and_group_by_person, "Recalculate kompleksitas"
KompleksitasMerge(count) ==
    IF count >= 15 THEN 5
    ELSE IF count >= 10 THEN 4
    ELSE IF count >= 5 THEN 3
    ELSE IF count >= 2 THEN 2
    ELSE 1

(***************************************************************************)
(* Correction pass: post_process_result                                    *)
(***************************************************************************)
\* a JSON value of the model's answer that is an object
IsDict(v) == "not_a_dict" \notin DOMAIN v

\* the keys post_process_result assigns in a person entry
CorrectedKeys ==
    {"start_date", "finish_date", "tasks", "total_tasks", "kompleksitas",
     "fullname", "project"}

\* the resource filter comparing without lower()
PersonTasksCaseSensitive(tasks, fullname) ==
    SelectSeq(tasks, LAMBDA t : Get(t, "resource", <<>>) = fullname)

\* person_tasks = [t for t in tasks if t.get("resource", "").lower() == fullname]
PersonTasks(tasks, fullname) ==
    SelectSeq(tasks, LAMBDA t : Lower(Get(t, "resource", <<>>)) = fullname)

\* one iteration of the loop over result["data"]
PostProcessPerson(person, tasks) ==
    LET fullname == Strip(Lower(Get(person, "fullname", <<>>)))
        person_tasks == PersonTasks(tasks, fullname)
        start_dates == [i \in 1..Len(person_tasks) |-> person_tasks[i].start_date]
        finish_dates == [i \in 1..Len(person_tasks) |-> person_tasks[i].finish_date]
        task_names ==
            [i \in 1..Len(person_tasks) |->
                Lower(Get(person_tasks[i], "task_name", <<>>))]
        nonempty == start_dates # <<>> /\ finish_dates # <<>>
        earliest_start == IF nonempty THEN PyMin(start_dates) ELSE 0
        latest_finish == IF nonempty THEN PyMax(finish_dates) ELSE 0
        project == Lower(Get(person, "project", <<>>))
    IN  [k \in (DOMAIN person) \cup CorrectedKeys |->
            CASE k = "start_date" -> earliest_start
              [] k = "finish_date" -> latest_finish
              [] k = "tasks" -> task_names
              [] k = "total_tasks" -> Len(task_names)
              [] k = "kompleksitas" -> KompleksitasPostProcess(Len(task_names))
              [] k = "fullname" -> fullname
              [] k = "project" -> project
              [] OTHER -> person[k]]

\* a pass that corrects the entries that are objects and leaves the others
\* as they are
PostProcessResultSkippingOthers(res, original_data) ==
    LET tasks == Get(original_data, "tasks", <<>>)
        data == Get(res, "data", <<>>)
    IN  [res EXCEPT !.data =
            [i \in 1..Len(data) |->
                IF IsDict(data[i]) THEN PostProcessPerson(data[i], tasks)
                ELSE data[i]]]

\* post_process_result(result, original_data); person.get raises on an entry
\* that is not an object
PostProcessResult(res, original_data) ==
    LET tasks == Get(original_data, "tasks", <<>>)
        data == Get(res, "data", <<>>)
    IN  IF \E i \in 1..Len(data) : ~IsDict(data[i]) THEN Raised
        ELSE [res EXCEPT !.data =
                [i \in 1..Len(data) |-> PostProcessPerson(data[i], tasks)]]

(***************************************************************************)
(* extract_with_llm: the service answer is an input                        *)
(***************************************************************************)
\* kind "text" is a 200 answer whose text is given by its layout: the pieces
\* of the text in order, where "object" is the complete JSON object
\* {"data": resp.data}, "cut" is that object cut off right after its last
\* complete entry, "fence" is a markdown code fence and "prose" is any other
\* text.  Kind "data" is the answer whose text is the object alone.
ResponseKinds ==
    {"connection_error", "http_error", "not_json", "invalid_structure", "data",
     "text"}

\* re.sub(r'```json\s*|\s*```', '', raw).strip()
StripFences(layout) == SelectSeq(layout, LAMBDA piece : piece # "fence")

\* json.loads(cleaned): a value only when the text is one complete JSON value
JsonLoads(layout, data) ==
    IF layout = <<"object">> THEN [data |-> data] ELSE Raised

\* the resource_mapping loop ahead of the try block: task.get raises on a
\* task that is not an object
ResourceMappingRaises(doc) ==
    LET tasks == Get(doc, "tasks", <<>>)
    IN  \E i \in 1..Len(tasks) : ~IsDict(tasks[i])

ExtractWithLlm(doc, resp) ==
    IF ResourceMappingRaises(doc) THEN Raised        \* outside the try block
    ELSE IF resp.kind = "connection_error" THEN None \* except Exception
    ELSE IF resp.kind = "http_error" THEN None       \* status_code != 200
    ELSE IF resp.kind = "not_json" THEN None         \* json.JSONDecodeError
    ELSE IF resp.kind = "invalid_structure" THEN None \* no "data" list
    ELSE LET parsed == IF resp.kind = "text"
                       THEN JsonLoads(StripFences(resp.layout), resp.data)
                       ELSE [data |-> resp.data]
         IN  IF parsed = Raised THEN None            \* json.JSONDecodeError
             ELSE LET corrected == PostProcessResult(parsed, doc)
                  IN  IF corrected = Raised THEN None \* except Exception
                      ELSE corrected

(***************************************************************************)
(* extract_with_ollama of src/llm/test.py: the other parser of an answer   *)
(***************************************************************************)
\* re.search(r'\{[\s\S]*"data"[\s\S]*\}', llm_output): the text from the first
\* "{" to the last "}", or <<>> when there is no such text.  An object has
\* both braces; a cut object has "{" and has "}" only when an entry of it is
\* complete, and then the match ends inside it
BraceMatch(layout, data) ==
    LET opens == {i \in 1..Len(layout) : layout[i] \in {"object", "cut"}}
        closes == {i \in 1..Len(layout) :
                      \/ layout[i] = "object"
                      \/ layout[i] = "cut" /\ Len(data) >= 1}
        first == CHOOSE i \in opens : \A j \in opens : i <= j
        last == CHOOSE i \in closes : \A j \in closes : i >= j
    IN  IF opens = {} \/ closes = {} THEN <<>>
        ELSE IF first > last THEN <<>>
        ELSE SubSeq(layout, first, last)

\* extract_with_ollama: the parsed answer as it is, or None
ExtractWithOllama(resp) ==
    IF resp.kind = "connection_error" THEN None      \* except ConnectionError
    ELSE IF resp.kind = "http_error" THEN None       \* status_code != 200
    ELSE IF resp.kind = "not_json" THEN None         \* json.JSONDecodeError
    ELSE IF resp.kind = "invalid_structure" THEN None \* no key 'data'
    ELSE IF resp.kind = "data" THEN [data |-> resp.data]
    ELSE LET json_match == BraceMatch(resp.layout, resp.data)
             extracted_data ==
                 IF json_match = <<>> THEN JsonLoads(resp.layout, resp.data)
                 ELSE JsonLoads(json_match, resp.data)
         IN  IF extracted_data = Raised THEN None    \* json.JSONDecodeError
             ELSE extracted_data

(***************************************************************************)
(* Merge engine: merge_and_group_by_person                                 *)
(***************************************************************************)
\* the flat entry built from a project of a grouped person
ProjectToEntry(fullname, project) ==
    [fullname |-> fullname,
     project |-> Lower(Get(project, "project", <<>>)),
     start_date |-> Get(project, "start_date", 0),
     finish_date |-> Get(project, "finish_date", 0),
     total_tasks |-> Get(project, "total_tasks", 0),
     tasks |-> Get(project, "tasks", <<>>),
     kompleksitas |-> Get(project, "kompleksitas", 0)]

\* the flat entry built from a person of the new data
PersonToEntry(person) ==
    [fullname |-> Lower(Get(person, "fullname", <<>>)),
     project |-> Lower(Get(person, "project", <<>>)),
     start_date |-> Get(person, "start_date", 0),
     finish_date |-> Get(person, "finish_date", 0),
     total_tasks |-> Get(person, "total_tasks", 0),
     tasks |-> Get(person, "tasks", <<>>),
     kompleksitas |-> Get(person, "kompleksitas", 0)]

\* "Add existing data": the loop over existing_data["people"] and their projects
RECURSIVE PeopleToTemp(_)
PeopleToTemp(people) ==
    IF people = <<>> THEN <<>>
    ELSE LET person == Head(people)
             fullname == Lower(Get(person, "fullname", <<>>))
             projects == Get(person, "projects", <<>>)
         IN  [i \in 1..Len(projects) |-> ProjectToEntry(fullname, projects[i])]
                \o PeopleToTemp(Tail(people))

\* if existing_data and "people" in existing_data
ExistingToTemp(existing) ==
    IF "people" \in DOMAIN existing
    THEN PeopleToTemp(Get(existing, "people", <<>>))
    ELSE <<>>

\* if new_data and "data" in new_data
NewToTemp(new) ==
    IF "data" \in DOMAIN new
    THEN [i \in 1..Len(new.data) |-> PersonToEntry(new.data[i])]
    ELSE <<>>

\* sorted() of a set of strings
RECURSIVE SortedStrings(_)
SortedStrings(S) ==
    IF S = {} THEN <<>>
    ELSE LET m == CHOOSE x \in S : \A y \in S : StrLe(x, y)
         IN  <<m>> \o SortedStrings(S \ {m})

\* [d for d in dates if d]
NonEmptyDates(dates) == SelectSeq(dates, LAMBDA d : d # 0)

\* the collision branch concatenating the task lists instead of uniting them
MergeIntoConcatenates(existing, entry) ==
    LET all_tasks == existing.tasks \o entry.tasks
        starts == NonEmptyDates(<<existing.start_date, entry.start_date>>)
        finishes == NonEmptyDates(<<existing.finish_date, entry.finish_date>>)
    IN  [existing EXCEPT
            !.tasks = all_tasks,
            !.total_tasks = Len(all_tasks),
            !.start_date = IF starts # <<>> THEN PyMin(starts) ELSE @,
            !.finish_date = IF finishes # <<>> THEN PyMax(finishes) ELSE @,
            !.kompleksitas = KompleksitasMerge(Len(all_tasks))]

\* the collision branch: existing is the entry held for the key
MergeInto(existing, entry) ==
    LET all_tasks == Range(existing.tasks \o entry.tasks)
        starts == NonEmptyDates(<<existing.start_date, entry.start_date>>)
        finishes == NonEmptyDates(<<existing.finish_date, entry.finish_date>>)
    IN  [existing EXCEPT
            !.tasks = SortedStrings(all_tasks),
            !.total_tasks = Cardinality(all_tasks),
            !.start_date = IF starts # <<>> THEN PyMin(starts) ELSE @,
            !.finish_date = IF finishes # <<>> THEN PyMax(finishes) ELSE @,
            !.kompleksitas = KompleksitasMerge(Cardinality(all_tasks))]

EntryKey(entry) == <<entry.fullname, entry.project>>

\* merged_dict after the loop over temp_data, in insertion order
RECURSIVE MergeDuplicates(_, _)
MergeDuplicates(merged_dict, temp_data) ==
    IF temp_data = <<>> THEN merged_dict
    ELSE LET entry == Head(temp_data)
             hit == {i \in 1..Len(merged_dict) :
                        EntryKey(merged_dict[i]) = EntryKey(entry)}
         IN  IF hit # {}
             THEN LET i == CHOOSE i \in hit : TRUE
                  IN  MergeDuplicates(
                        [merged_dict EXCEPT ![i] = MergeInto(@, entry)],
                        Tail(temp_data))
             ELSE MergeDuplicates(Append(merged_dict, entry), Tail(temp_data))

\* project_data of an entry
ProjectData(entry) ==
    [project |-> entry.project,
     start_date |-> entry.start_date,
     finish_date |-> entry.finish_date,
     total_tasks |-> entry.total_tasks,
     kompleksitas |-> entry.kompleksitas,
     tasks |-> entry.tasks]

\* sorted(projects, key=lambda x: x["project"]): stable insertion
RECURSIVE InsertByProject(_, _)
InsertByProject(sorted, x) ==
    IF sorted = <<>> THEN <<x>>
    ELSE IF StrLt(x.project, Head(sorted).project) THEN <<x>> \o sorted
    ELSE <<Head(sorted)>> \o InsertByProject(Tail(sorted), x)

\* the projects of a person left in insertion order
SortedByProjectNoSort(projects) == projects

RECURSIVE SortedByProject(_)
SortedByProject(projects) ==
    IF projects = <<>> THEN <<>>
    ELSE InsertByProject(
            SortedByProject(SubSeq(projects, 1, Len(projects) - 1)),
            projects[Len(projects)])

\* people_dict[fullname]: the project_data of the entries of one person
ProjectsOf(merged_dict, fullname) ==
    LET own == SelectSeq(merged_dict, LAMBDA e : e.fullname = fullname)
    IN  [i \in 1..Len(own) |-> ProjectData(own[i])]

\* "Group by person" and "Convert to final format"
GroupByPerson(merged_dict) ==
    LET names == SortedStrings({merged_dict[i].fullname : i \in 1..Len(merged_dict)})
    IN  [i \in 1..Len(names) |->
            [fullname |-> names[i],
             projects |-> SortedByProject(ProjectsOf(merged_dict, names[i]))]]

MergeAndGroupByPerson(existing, new) ==
    LET temp_data == ExistingToTemp(existing) \o NewToTemp(new)
        merged_dict == MergeDuplicates(<<>>, temp_data)
    IN  [people |-> GroupByPerson(merged_dict)]

(***************************************************************************)
(* Batch run: files, ledger, dataset                                       *)
(***************************************************************************)
\* content of a file that json.load rejects
InvalidJson == [invalid_json |-> TRUE]

\* get_file_hash: md5 of the bytes, taken as injective on the contents
GetFileHash(file) == <<"md5", file.bytes>>

\* scan_json_files: every *.json of the folder with its hash
ScanJsonFiles(files) ==
    [i \in 1..Len(files) |->
        [path |-> files[i].name, name |-> files[i].name,
         hash |-> GetFileHash(files[i])]]

EmptyLedger == [processed_files |-> <<>>]

\* content of a file that is valid JSON, an object, and not a ledger:
\* {"unexpected": true}
UnexpectedObject == [unexpected |-> TRUE]

\* content of a file, or a task of a document, that is valid JSON and not an
\* object, such as [1] or 5
NotAnObject == [not_a_dict |-> TRUE]

\* load_processed_files: the ledger, or an empty one when the file is absent
\* or json.load raises
LoadProcessedFiles(file) ==
    IF file = None THEN EmptyLedger
    ELSE IF file = InvalidJson THEN EmptyLedger
    ELSE file

\* the filter of get_unprocessed_files with the recorded names in place of
\* the recorded hashes
GetUnprocessedFilesByName(json_files, ledger) ==
    LET recorded == Get(ledger, "processed_files", <<>>)
        processed_names == {recorded[i].name : i \in 1..Len(recorded)}
    IN  SelectSeq(json_files, LAMBDA f : f.name \notin processed_names)

\* get_unprocessed_files
GetUnprocessedFiles(json_files, ledger) ==
    LET recorded == Get(ledger, "processed_files", <<>>)
        processed_hashes == {recorded[i].hash : i \in 1..Len(recorded)}
    IN  SelectSeq(json_files, LAMBDA f : f.hash \notin processed_hashes)

\* "Load existing results"
LoadExistingResults(file) ==
    IF file = None THEN [people |-> <<>>]
    ELSE IF file = InvalidJson THEN [people |-> <<>>]
    ELSE file

\* the file operations __main__ makes up to the loop: the ledger is loaded
\* ahead of the "all files processed" exit, the dataset after it
StartEvents(reaches_scan, reaches_loop) ==
    (IF reaches_scan THEN << [op |-> "load", arg |-> "ledger"] >> ELSE <<>>)
    \o (IF reaches_loop THEN << [op |-> "load", arg |-> "dataset"] >> ELSE <<>>)

\* the file operations of an iteration that saves the ledger after each
\* document
DocumentEventsSavingLedger(file_info) ==
    << [op |-> "document", arg |-> file_info.name],
       [op |-> "save", arg |-> "ledger"] >>

\* the file operations of one iteration of the loop besides reading the
\* document itself: none
DocumentEvents(file_info) == << [op |-> "document", arg |-> file_info.name] >>

\* the call result = extract_with_llm(json_data, model_name)
ExtractEvents(file_info) == << [op |-> "extract", arg |-> file_info.name] >>

\* the file operations after the loop: json.dump of the dataset, then
\* save_processed_files, both under "if processed_count > 0"
FinishEvents(count) ==
    IF count > 0
    THEN << [op |-> "save", arg |-> "dataset"], [op |-> "save", arg |-> "ledger"] >>
    ELSE <<>>

\* load_json_file(path): the parsed document, or None
LoadJsonFile(files, path) ==
    LET hit == {i \in 1..Len(files) : files[i].name = path}
    IN  IF hit = {} THEN None                          \* FileNotFoundError
        ELSE LET content == files[CHOOSE i \in hit : TRUE].json
             IN  IF content = InvalidJson THEN None    \* json.JSONDecodeError
                 ELSE content

\* if result: (a dict holding "data" is truthy, None is not)
Truthy(res) == res # None

(***************************************************************************)
(* Inputs: canonical documents and model answers                           *)
(***************************************************************************)
\* canonical tasks as the extractor writes them: one resource each, stripped
\* and non-empty, dates non-empty, at least one task per document.  id,
\* duration and predecessors are never read by post_process_result or the
\* merge and are left out.
TaskPool ==
    { [task_name |-> <<"T">>, start_date |-> 2, finish_date |-> 3,
       resource |-> <<"A", "l">>],
      [task_name |-> <<"u">>, start_date |-> 1, finish_date |-> 2,
       resource |-> <<"A", "l">>],
      [task_name |-> <<"T">>, start_date |-> 3, finish_date |-> 4,
       resource |-> <<"B", "o">>],
      [task_name |-> <<"t">>, start_date |-> 1, finish_date |-> 4,
       resource |-> <<"A", "L">>] }

\* {"project": {"name": ...}, "tasks": [...]}
Docs ==
    { [project |-> [name |-> <<"P">>], tasks |-> ts] :
        ts \in SeqsUpTo(TaskPool, MaxTasks) \ {<<>>} }

\* person entries a model answer may hold: wrong facts, another project,
\* extra keys, an invented person, missing keys, a value that is no object
ModelEntryPool ==
    { [fullname |-> <<"a", "l">>, project |-> <<"p">>, start_date |-> 9,
       finish_date |-> 9, total_tasks |-> 7, tasks |-> << <<"x">> >>,
       kompleksitas |-> 5],
      [fullname |-> <<" ", "A", "l", " ">>, project |-> <<"Q">>,
       start_date |-> 8, finish_date |-> 9, total_tasks |-> 0, tasks |-> <<>>,
       kompleksitas |-> 0, end_date |-> 9, duration_days |-> 99,
       phases |-> << <<"x">> >>],
      [fullname |-> <<"z", "o">>, project |-> <<"P">>, total_tasks |-> 7,
       kompleksitas |-> 4],
      [fullname |-> <<"b", "o">>, kompleksitas |-> 3],
      [not_a_dict |-> TRUE] }

\* the texts an answer may be: the object alone, in code fences, inside
\* prose, and cut off, alone or after an opening fence
TextLayouts ==
    { <<"object">>, <<"fence", "object", "fence">>,
      <<"prose", "object", "prose">>, <<"prose", "object">>,
      <<"cut">>, <<"fence", "cut">> }

Responses ==
    { [kind |-> k, data |-> <<>>] : k \in ResponseKinds \ {"data", "text"} }
    \cup { [kind |-> "data", data |-> d] :
            d \in SeqsUpTo(ModelEntryPool, MaxModelEntries) }
    \cup { [kind |-> "text", layout |-> l, data |-> d] :
            l \in TextLayouts, d \in SeqsUpTo(ModelEntryPool, 1) }

(***************************************************************************)
(* Inputs: datasets given to the merge                                     *)
(***************************************************************************)
\* person summaries as the correction pass emits them (tasks in document
\* order, a name possibly twice, no tasks for an invented person), and one
\* with names in upper case as an older dataset may hold
EntryPool ==
    { [fullname |-> <<"a", "l">>, project |-> <<"p">>, start_date |-> 2,
       finish_date |-> 3, total_tasks |-> 2, tasks |-> << <<"u">>, <<"t">> >>,
       kompleksitas |-> 2],
      [fullname |-> <<"A", "l">>, project |-> <<"P">>, start_date |-> 1,
       finish_date |-> 2, total_tasks |-> 1, tasks |-> << <<"t">> >>,
       kompleksitas |-> 1],
      [fullname |-> <<"a", "l">>, project |-> <<"q">>, start_date |-> 0,
       finish_date |-> 0, total_tasks |-> 0, tasks |-> <<>>,
       kompleksitas |-> 1],
      [fullname |-> <<"b", "o">>, project |-> <<"p">>, start_date |-> 3,
       finish_date |-> 4, total_tasks |-> 2, tasks |-> << <<"t">>, <<"t">> >>,
       kompleksitas |-> 2],
      [fullname |-> <<"a", "l">>, project |-> <<"p">>, start_date |-> 0,
       finish_date |-> 1, total_tasks |-> 1, tasks |-> << <<"x">> >>,
       kompleksitas |-> 1] }

\* the flat shape {"data": [...]}
FlatShape(entries) == [data |-> entries]

\* the grouped shape {"people": [...]}, one person record per entry
GroupedShape(entries) ==
    [people |->
        [i \in 1..Len(entries) |->
            [fullname |-> entries[i].fullname,
             projects |-> <<ProjectData(entries[i])>>]]]

Shaped(entries, shape) ==
    IF shape = "people" THEN GroupedShape(entries) ELSE FlatShape(entries)

Shapes == {"people", "data"}

(***************************************************************************)
(* Inputs: the files of a batch and the answers of the service             *)
(***************************************************************************)
\* two documents of one project that share a resource, a copy of the first
\* under another name, a file that is no JSON, a file holding a JSON list and
\* a document one of whose tasks is not an object
FilePool ==
    << [name |-> "a.json", bytes |-> "A",
        json |-> [project |-> [name |-> <<"P">>],
                  tasks |-> << [task_name |-> <<"T">>, start_date |-> 2,
                                finish_date |-> 3, resource |-> <<"A", "l">>],
                               [task_name |-> <<"T">>, start_date |-> 3,
                                finish_date |-> 4, resource |-> <<"B", "o">>] >>]],
       [name |-> "b.json", bytes |-> "B",
        json |-> [project |-> [name |-> <<"P">>],
                  tasks |-> << [task_name |-> <<"u">>, start_date |-> 1,
                                finish_date |-> 2, resource |-> <<"A", "l">>] >>]],
       [name |-> "c.json", bytes |-> "A",
        json |-> [project |-> [name |-> <<"P">>],
                  tasks |-> << [task_name |-> <<"T">>, start_date |-> 2,
                                finish_date |-> 3, resource |-> <<"A", "l">>],
                               [task_name |-> <<"T">>, start_date |-> 3,
                                finish_date |-> 4, resource |-> <<"B", "o">>] >>]],
       [name |-> "d.json", bytes |-> "D", json |-> InvalidJson],
       [name |-> "e.json", bytes |-> "E", json |-> NotAnObject],
       [name |-> "f.json", bytes |-> "F",
        json |-> [project |-> [name |-> <<"P">>],
                  tasks |-> << NotAnObject >>]] >>

\* the folders: the files of the pool a folder holds, in the pool's order
Folders ==
    { SelectSeq(FilePool, LAMBDA f : f.name \in names) :
        names \in { n \in SUBSET {FilePool[i].name : i \in 1..Len(FilePool)} :
                      Cardinality(n) <= MaxFiles } }

\* what may be found in a persisted file at the start of a run, given what
\* the last run left: the same, or a file that is no JSON, or (ledger) a JSON
\* object that is no ledger
LedgerStates(file) == {file, InvalidJson, UnexpectedObject}
DatasetStates(file) == {file, InvalidJson}

\* what the service may answer for one document of a batch
BatchResponses ==
    { [kind |-> "connection_error", data |-> <<>>],
      [kind |-> "not_json", data |-> <<>>],
      [kind |-> "data", data |-> <<>>],
      [kind |-> "data",
       data |-> << [fullname |-> <<"a", "l">>, project |-> <<"p">>,
                    start_date |-> 9, finish_date |-> 9, total_tasks |-> 7,
                    tasks |-> << <<"x">> >>, kompleksitas |-> 5],
                   [fullname |-> <<"B", "o">>, project |-> <<"P">>] >>] }

(***************************************************************************)
(* test.py: refine_with_post_processing and fallback_extraction            *)
(*                                                                         *)
(* The text of a document is the record of what the functions search it    *)
(* for: project, the name behind "Project:" (<<>> when the search finds    *)
(* none), and lines, each with the names it holds, whether the names stand *)
(* behind a date and a predecessor number, the number of date tokens and   *)
(* the matches of the duration pattern.  The dates and the phases of a     *)
(* summary are carried next to the fields below and are left out.          *)
(***************************************************************************)
UnknownProject ==
    <<"U", "n", "k", "n", "o", "w", "n", " ", "P", "r", "o", "j", "e", "c", "t">>

\* project_name: the match of the project pattern or "Unknown Project"
ProjectNameOf(text) ==
    IF text.project = <<>> THEN UnknownProject ELSE Strip(text.project)

\* max(1, min(5, kompleksitas))
ClampKompleksitas(kompleksitas) ==
    IF kompleksitas > 5 THEN 5
    ELSE IF kompleksitas < 1 THEN 1 ELSE kompleksitas

\* the kompleksitas refine_with_post_processing gives a summary:
\* person.get('kompleksitas', 1), clamped to 1..5
RefinedKompleksitas(person) ==
    ClampKompleksitas(
        IF "kompleksitas" \in DOMAIN person THEN person.kompleksitas ELSE 1)

\* one pass of the loop of refine_with_post_processing
RECURSIVE RefineFrom(_, _, _, _)
RefineFrom(persons, i, project_name, refined) ==
    IF i > Len(persons) THEN refined
    ELSE LET person == persons[i]
             fullname ==
                 IF "fullname" \in DOMAIN person
                 THEN Strip(Lower(person.fullname)) ELSE <<>>
             project ==
                 IF "project" \notin DOMAIN person
                    \/ person.project = <<>>
                    \/ person.project = UnknownProject
                 THEN project_name ELSE person.project
         IN  IF Len(fullname) < 2
             THEN RefineFrom(persons, i + 1, project_name, refined)
             ELSE RefineFrom(persons, i + 1, project_name,
                      Append(refined,
                          [fullname |-> fullname,
                           project |-> project,
                           total_tasks |->
                               IF "total_tasks" \in DOMAIN person
                               THEN person.total_tasks ELSE 0,
                           duration_days |->
                               IF "duration_days" \in DOMAIN person
                               THEN person.duration_days ELSE 0,
                           kompleksitas |-> RefinedKompleksitas(person)]))

\* refine_with_post_processing(data, ocr_text)
RefineWithPostProcessing(data, text) ==
    IF "data" \notin DOMAIN data THEN data
    ELSE [data |-> RefineFrom(data.data, 1, ProjectNameOf(text), <<>>)]

\* x in name, for strings
HasSubstring(name, x) ==
    \E i \in 1..(Len(name) - Len(x) + 1) :
        SubSeq(name, i, i + Len(x) - 1) = x

\* the words a name of the fallback must not hold
FallbackStopWords ==
    { <<"d", "a", "y", "s">>, <<"t", "a", "s", "k">>,
      <<"p", "a", "g", "e">>, <<"m", "a", "n", "u", "a", "l">> }

\* resources: the names behind a date and a predecessor number, lower case,
\* of 2 to 19 characters, without a stop word
FallbackNames(text) ==
    { name \in
        UNION { { Strip(Lower(text.lines[i].names[j])) :
                    j \in 1..Len(text.lines[i].names) } :
                i \in {i \in 1..Len(text.lines) : text.lines[i].listed} } :
        /\ Len(name) > 1 /\ Len(name) < 20
        /\ \A x \in FallbackStopWords : ~HasSubstring(name, x) }

\* the lines that hold the resource
LinesOf(text, resource) ==
    { i \in 1..Len(text.lines) :
        \E j \in 1..Len(text.lines[i].names) :
            HasSubstring(Lower(text.lines[i].names[j]), resource) }

RECURSIVE SumOver(_, _)
SumOver(S, f) ==
    IF S = {} THEN 0
    ELSE LET i == CHOOSE i \in S : TRUE
         IN  f[i] + SumOver(S \ {i}, f)

\* the summary of one resource: total_tasks = len(data['dates']),
\* duration_days = int(sum(durations)) or total_tasks, and
\* kompleksitas = min(5, max(1, (total_tasks + duration_days // 10) // 3))
FallbackPerson(text, name) ==
    LET own == LinesOf(text, name)
        total_tasks ==
            SumOver(own, [i \in own |-> text.lines[i].dates])
        with_duration == {i \in own : text.lines[i].durations # <<>>}
        duration_days ==
            IF with_duration # {}
            THEN SumOver(with_duration,
                     [i \in with_duration |-> text.lines[i].durations[1]])
            ELSE total_tasks
    IN  [fullname |-> name,
         project |-> ProjectNameOf(text),
         total_tasks |-> total_tasks,
         duration_days |-> duration_days,
         kompleksitas |->
             ClampKompleksitas((total_tasks + (duration_days \div 10)) \div 3)]

\* fallback_extraction(ocr_text, output_file_path): the summaries of the
\* resources that have a date, sorted by fullname
FallbackExtraction(text) ==
    LET resources == FallbackNames(text)
        dated == {name \in resources :
                     \E i \in LinesOf(text, name) : text.lines[i].dates > 0}
        order == SortedStrings(dated)
    IN  [data |-> [k \in 1..Len(order) |-> FallbackPerson(text, order[k])]]

(***************************************************************************)
(* ScanDocument.py: try_parse_date                                         *)
(*                                                                         *)
(* A date string is the record [words |-> s] of the sequence of its        *)
(* whitespace-separated words.  A word is one of                           *)
(*   [w |-> "word", text]           letters only, e.g. Wed, Jul, July      *)
(*   [w |-> "mdy", m, d, y, digits] M/D/Y with a year of 2..4 digits       *)
(*   [w |-> "iso", y, m, d]         YYYY-MM-DD                             *)
(*   [w |-> "day", d, comma]        D or D,                                *)
(*   [w |-> "year", y, digits, apostrophe]   YYYY, YY or 'YY               *)
(* No words is the empty string.                                           *)
(***************************************************************************)
AbbrMonths ==
    << <<"j", "a", "n">>, <<"f", "e", "b">>, <<"m", "a", "r">>,
       <<"a", "p", "r">>, <<"m", "a", "y">>, <<"j", "u", "n">>,
       <<"j", "u", "l">>, <<"a", "u", "g">>, <<"s", "e", "p">>,
       <<"o", "c", "t">>, <<"n", "o", "v">>, <<"d", "e", "c">> >>

\* the full month names the inputs use (July); the others are not drawn
FullMonths ==
    << <<>>, <<>>, <<>>, <<>>, <<>>, <<>>,
       <<"j", "u", "l", "y">>, <<>>, <<>>, <<>>, <<>>, <<>> >>

AbbrWeekdays ==
    { <<"m", "o", "n">>, <<"t", "u", "e">>, <<"w", "e", "d">>,
      <<"t", "h", "u">>, <<"f", "r", "i">>, <<"s", "a", "t">>,
      <<"s", "u", "n">> }

\* the full weekday names the inputs use (Sunday)
FullWeekdays == { <<"s", "u", "n", "d", "a", "y">> }

\* the number of the month a name of the list stands for, 0 for no month
MonthNumber(names, text) ==
    IF \E n \in 1..12 : names[n] # <<>> /\ names[n] = Lower(text)
    THEN CHOOSE n \in 1..12 : names[n] = Lower(text)
    ELSE 0

IsLeap(y) == (y % 4 = 0 /\ y % 100 # 0) \/ y % 400 = 0

DaysInMonth(m, y) ==
    IF m = 2 THEN (IF IsLeap(y) THEN 29 ELSE 28)
    ELSE IF m \in {4, 6, 9, 11} THEN 30 ELSE 31

\* the characters of the words the inputs use
Chars(name) ==
    CASE name = "Wed" -> <<"W", "e", "d">>
      [] name = "Sun" -> <<"S", "u", "n">>
      [] name = "Sunday" -> <<"S", "u", "n", "d", "a", "y">>
      [] name = "Jul" -> <<"J", "u", "l">>
      [] name = "July" -> <<"J", "u", "l", "y">>
      [] name = "Feb" -> <<"F", "e", "b">>

\* datetime accepts the date
RealDate(y, m, d) ==
    /\ y >= 1 /\ y <= 9999
    /\ m >= 1 /\ m <= 12
    /\ d >= 1 /\ d <= DaysInMonth(m, y)

\* dt.strftime("%Y-%m-%d")
IsoString(y, m, d) ==
    [words |-> << [w |-> "iso", y |-> y, m |-> m, d |-> d] >>]

\* the empty string
EmptyString == [words |-> <<>>]

\* the year %y stands for
TwoDigitYear(yy) == IF yy <= 68 THEN 2000 + yy ELSE 1900 + yy

\* what a format takes from a string that matches it: the year, month and
\* day, or <<>> when the string does not match the format
NumericFields(s, at, digits) ==
    IF Len(s) = at /\ s[at].w = "mdy" /\ s[at].digits = digits
    THEN << (IF digits = 2 THEN TwoDigitYear(s[at].y) ELSE s[at].y),
            s[at].m, s[at].d >>
    ELSE <<>>

NamedFields(s, at, months, digits, apostrophe) ==
    IF /\ Len(s) = at + 2
       /\ s[at].w = "word" /\ MonthNumber(months, s[at].text) # 0
       /\ s[at + 1].w = "day" /\ s[at + 1].comma
       /\ s[at + 2].w = "year" /\ s[at + 2].digits = digits
       /\ s[at + 2].apostrophe = apostrophe
    THEN << (IF digits = 2 THEN TwoDigitYear(s[at + 2].y) ELSE s[at + 2].y),
            MonthNumber(months, s[at].text), s[at + 1].d >>
    ELSE <<>>

\* the string starts with a weekday name of the set, as %a or %A reads it
WeekdayAhead(s, names) ==
    Len(s) >= 2 /\ s[1].w = "word" /\ Lower(s[1].text) \in names

FormatFields(s, fmt) ==
    CASE fmt = "%m/%d/%Y" -> NumericFields(s, 1, 4)
      [] fmt = "%m/%d/%y" -> NumericFields(s, 1, 2)
      [] fmt = "%Y-%m-%d" ->
            IF Len(s) = 1 /\ s[1].w = "iso"
            THEN <<s[1].y, s[1].m, s[1].d>> ELSE <<>>
      [] fmt = "%b %d, '%y" -> NamedFields(s, 1, AbbrMonths, 2, TRUE)
      [] fmt = "%b %d, %Y" -> NamedFields(s, 1, AbbrMonths, 4, FALSE)
      [] fmt = "%B %d, %Y" -> NamedFields(s, 1, FullMonths, 4, FALSE)
      [] fmt = "%a %m/%d/%y" ->
            IF WeekdayAhead(s, AbbrWeekdays) THEN NumericFields(s, 2, 2) ELSE <<>>
      [] fmt = "%A %m/%d/%y" ->
            IF WeekdayAhead(s, FullWeekdays) THEN NumericFields(s, 2, 2) ELSE <<>>
      [] fmt = "%a %b %d, %Y" ->
            IF WeekdayAhead(s, AbbrWeekdays)
            THEN NamedFields(s, 2, AbbrMonths, 4, FALSE) ELSE <<>>
      [] fmt = "%A %b %d, %Y" ->
            IF WeekdayAhead(s, FullWeekdays)
            THEN NamedFields(s, 2, AbbrMonths, 4, FALSE) ELSE <<>>
      [] fmt = "%a %m/%d/%Y" ->
            IF WeekdayAhead(s, AbbrWeekdays) THEN NumericFields(s, 2, 4) ELSE <<>>
      [] fmt = "%A %m/%d/%Y" ->
            IF WeekdayAhead(s, FullWeekdays) THEN NumericFields(s, 2, 4) ELSE <<>>

\* dt.strftime("%Y-%m-%d") of the fields a format took, or None when
\* strptime raised: no match, or not a date of the calendar
IsoOrNone(f) ==
    IF f # <<>> /\ RealDate(f[1], f[2], f[3])
    THEN IsoString(f[1], f[2], f[3]) ELSE None

\* datetime.strptime(s, fmt).strftime("%Y-%m-%d"), or None when it raises
Strptime(s, fmt) == IsoOrNone(FormatFields(s, fmt))

DATE_FORMAT_TRIES ==
    << "%m/%d/%Y", "%m/%d/%y", "%Y-%m-%d",
       "%b %d, '%y", "%b %d, %Y", "%B %d, %Y",
       "%a %m/%d/%y", "%A %m/%d/%y",
       "%a %b %d, %Y", "%A %b %d, %Y",
       "%a %m/%d/%Y", "%A %m/%d/%Y" >>

\* re.sub(r'^[A-Za-z]{3,}\s+', '', s): a first word of three letters or more
\* that another word follows is removed
StripLeadingWord(s) ==
    IF Len(s) >= 2 /\ s[1].w = "word" /\ Len(s[1].text) >= 3
    THEN Tail(s) ELSE s

\* the first result of a list of attempts that is not None ("return" at the
\* first attempt that parses), None when every attempt failed
FirstParsed(parsed) ==
    IF \A n \in 1..Len(parsed) : parsed[n] = None THEN None
    ELSE parsed[CHOOSE n \in 1..Len(parsed) :
                    /\ parsed[n] # None
                    /\ \A k \in 1..(n - 1) : parsed[k] = None]

\* the loop over DATE_FORMAT_TRIES: the first format that parses
FirstFormat(s) ==
    FirstParsed([n \in 1..Len(DATE_FORMAT_TRIES) |->
                    Strptime(s, DATE_FORMAT_TRIES[n])])

\* "Jul 20 25" or "Jul 20 2025": month word, day, year, read with "%b %d %Y"
MonthDayYear(s) ==
    IF /\ Len(s) >= 3
       /\ s[1].w = "word" /\ s[2].w = "day" /\ s[3].w = "year"
    THEN LET yr == IF s[3].y < 100 THEN s[3].y + 2000 ELSE s[3].y
             mon == MonthNumber(AbbrMonths, s[1].text)
         IN  IF mon # 0 /\ yr >= 1000 /\ RealDate(yr, mon, s[2].d)
             THEN IsoString(yr, mon, s[2].d) ELSE None
    ELSE None

\* M/D/Y alone, a year of two digits taken as 20YY, read with "%m/%d/%Y"
SlashDate(s) ==
    IF Len(s) = 1 /\ s[1].w = "mdy"
    THEN LET yy == IF s[1].digits = 2 THEN s[1].y + 2000 ELSE s[1].y
         IN  IF s[1].digits # 3 /\ RealDate(yy, s[1].m, s[1].d)
             THEN IsoString(yy, s[1].m, s[1].d) ELSE None
    ELSE None

\* try_parse_date(s): the ISO string or None
\* the attempts of try_parse_date on the stripped string, in their order
TryFormats(s) ==
    FirstParsed(<<FirstFormat(s), MonthDayYear(s), SlashDate(s)>>)

TryParseDate(raw) ==
    IF raw.words = <<>> THEN None
    ELSE TryFormats(StripLeadingWord(raw.words))

(***************************************************************************)
(* ScanDocument.py: task dicts, the Task Expander, extract_from_pdf        *)
(*                                                                         *)
(* A task dict refers to its duration dict and to its predecessors list;   *)
(* the two are objects of scan_heap and the task holds their addresses, so *)
(* that a copy that shares an object and a copy of the object differ.      *)
(***************************************************************************)
\* the end of _parse_task_line: resources without blanks and without a name
\* seen before in any letter case, first-seen order
RECURSIVE UniqueFrom(_, _, _)
UniqueFrom(resources, i, unique_resources) ==
    IF i > Len(resources) THEN unique_resources
    ELSE LET r_clean == Strip(resources[i])
             seen == {Lower(unique_resources[j]) :
                         j \in 1..Len(unique_resources)}
         IN  IF r_clean # <<>> /\ Lower(r_clean) \notin seen
             THEN UniqueFrom(resources, i + 1, Append(unique_resources, r_clean))
             ELSE UniqueFrom(resources, i + 1, unique_resources)

UniqueResources(resources) == UniqueFrom(resources, 1, <<>>)

\* str.isdigit() of one character, and [a-zA-Z]
IsDigitChar(c) == c \in {"0", "1", "2", "3", "4", "5", "6", "7", "8", "9"}

IsLetterChar(c) ==
    LowerChar(c) \in
        {"a", "b", "c", "d", "e", "f", "g", "h", "i", "j", "k", "l", "m",
         "n", "o", "p", "q", "r", "s", "t", "u", "v", "w", "x", "y", "z"}

\* str.isdigit()
IsDigit(token) ==
    token # <<>> /\ \A i \in 1..Len(token) : IsDigitChar(token[i])

\* the characters from..to of the token are so many digits
DigitsAt(token, from, to) ==
    to <= Len(token) /\ \A i \in from..to : IsDigitChar(token[i])

\* re.match(r'\d{1,2}/\d{1,2}/\d{2,4}', token): a date ahead of the token
DateAhead(token) ==
    \E a \in 1..2 : \E b \in 1..2 :
        /\ Len(token) >= a + b + 4
        /\ DigitsAt(token, 1, a)
        /\ token[a + 1] = "/"
        /\ DigitsAt(token, a + 2, a + b + 1)
        /\ token[a + b + 2] = "/"
        /\ DigitsAt(token, a + b + 3, a + b + 4)

\* re.match(r'^(Jan|...|Dec)', token, re.IGNORECASE), and the same for the
\* weekday names
NameAhead(token, names) ==
    Len(token) >= 3 /\ Lower(SubSeq(token, 1, 3)) \in names

\* re.match(r'^[SMTWRF]{1,2}(\s+|$)', token)
CalendarLabel(token) ==
    \E n \in 1..2 :
        /\ Len(token) >= n
        /\ \A i \in 1..n : token[i] \in {"S", "M", "T", "W", "R", "F"}
        /\ Len(token) = n \/ token[n + 1] = " "

exclude_tokens ==
    { <<"p", "a", "g", "e">>, <<"t", "a", "s", "k">>,
      <<"e", "x", "t", "e", "r", "n", "a", "l">>,
      <<"t", "a", "s", "k", "s">>, <<"m", "a", "n", "u", "a", "l">>,
      <<"f", "i", "n", "i", "s", "h", "-", "o", "n", "l", "y">>,
      <<"s", "p", "l", "i", "t">>,
      <<"m", "i", "l", "e", "s", "t", "o", "n", "e">>,
      <<"d", "u", "r", "a", "t", "i", "o", "n", "-", "o", "n", "l", "y">>,
      <<"d", "e", "a", "d", "l", "i", "n", "e">>,
      <<"p", "r", "o", "j", "e", "c", "t">>,
      <<"s", "u", "m", "m", "a", "r", "y">>,
      <<"i", "n", "a", "c", "t", "i", "v", "e">>,
      <<"r", "o", "l", "l", "u", "p">>,
      <<"p", "r", "o", "g", "r", "e", "s", "s">>,
      <<"s", "t", "a", "r", "t", "-", "o", "n", "l", "y">>,
      <<"d", "a", "t", "e">>, <<"f", "i", "n", "i", "s", "h">>,
      <<"s", "t", "a", "r", "t">>,
      <<"d", "u", "r", "a", "t", "i", "o", "n">>,
      <<"p", "r", "e", "d", "e", "c", "e", "s", "s", "o", "r">>,
      <<"i", "d">> }

\* is_valid_resource_name(token)
IsValidResourceName(raw) ==
    LET token == Strip(raw)
    IN  /\ token # <<>>
        /\ ~IsDigit(token)
        /\ ~DateAhead(token)
        /\ ~NameAhead(token, Range(AbbrMonths))
        /\ ~NameAhead(token, AbbrWeekdays)
        /\ ~CalendarLabel(token)
        /\ Lower(token) \notin exclude_tokens
        /\ \E i \in 1..Len(token) : IsLetterChar(token[i])
        /\ Len(token) >= 2

\* token.split(',')
RECURSIVE SplitComma(_)
SplitComma(token) ==
    IF "," \notin Range(token) THEN <<token>>
    ELSE LET k == CHOOSE i \in 1..Len(token) :
                      token[i] = "," /\ \A j \in 1..(i - 1) : token[j] # ","
         IN  <<SubSeq(token, 1, k - 1)>>
                 \o SplitComma(SubSeq(token, k + 1, Len(token)))

\* sub_resources = [r.strip() for r in token.split(',') if r.strip()]
SubResources(token) ==
    LET parts == SplitComma(token)
        stripped == [i \in 1..Len(parts) |-> Strip(parts[i])]
    IN  SelectSeq(stripped, LAMBDA r : r # <<>>)

\* the loop over the tokens of the rest of a task line: a digit token is a
\* predecessor; a token the classifier accepts gives its comma-separated
\* parts that the classifier accepts, or itself when it has no comma
RECURSIVE TokenLoop(_, _, _, _)
TokenLoop(tokens, i, preds, found) ==
    IF i > Len(tokens) THEN [predecessors |-> preds, resources |-> found]
    ELSE LET token == Strip(tokens[i])
         IN  IF token = <<>> THEN TokenLoop(tokens, i + 1, preds, found)
             ELSE IF IsDigit(token)
             THEN TokenLoop(tokens, i + 1, Append(preds, token), found)
             ELSE IF IsValidResourceName(token)
             THEN IF "," \in Range(token)
                  THEN TokenLoop(tokens, i + 1, preds,
                           found \o SelectSeq(SubResources(token),
                                              IsValidResourceName))
                  ELSE TokenLoop(tokens, i + 1, preds, Append(found, token))
             ELSE TokenLoop(tokens, i + 1, preds, found)

\* _parse_task_line after the line pattern has matched: the predecessors and
\* the deduplicated resources of the tokens behind the dates
ParseRemaining(tokens) ==
    LET made == TokenLoop(tokens, 1, <<>>, <<>>)
    IN  [predecessors |-> made.predecessors,
         resources |-> UniqueResources(made.resources)]

\* sd = try_parse_date(sd_raw) or sd_raw or ""
\* parsed or sd_raw or ""
OrRaw(parsed, raw) ==
    IF parsed # None THEN parsed
    ELSE IF raw.words # <<>> THEN raw
    ELSE EmptyString

NormalizeDate(raw) == OrRaw(TryParseDate(raw), raw)

\* _normalize_task: the task dict of one line, with a new duration dict and
\* the predecessors list of the line
NormalizeTask(line, heap) ==
    [task |-> [id |-> line.id, task_name |-> line.task_name,
               duration |-> Len(heap) + 1,
               start_date |-> NormalizeDate(line.start_date),
               finish_date |-> NormalizeDate(line.finish_date),
               predecessors |-> Len(heap) + 2,
               resources |-> line.resources],
     heap |-> heap \o << [value |-> line.duration, unit |-> "days",
                          raw |-> line.duration],
                         [items |-> line.predecessors] >>]

\* the task dicts of a sequence of lines, in order
RECURSIVE BuildTasks(_, _, _, _)
BuildTasks(lines, i, tasks, heap) ==
    IF i > Len(lines) THEN [tasks |-> tasks, heap |-> heap]
    ELSE LET made == NormalizeTask(lines[i], heap)
         IN  BuildTasks(lines, i + 1, Append(tasks, made.task), made.heap)

\* _parse_text_to_tasks, from the resource candidates of each line on
ParseTextToTasks(lines) ==
    BuildTasks([i \in 1..Len(lines) |->
                    [lines[i] EXCEPT !.resources = UniqueResources(@)]],
               1, <<>>, <<>>)

\* a filter that keeps every entry of the list
KeepAll(resources) == resources

\* resources = [r for r in resources if r and r.strip()]
NonBlank(resources) ==
    SelectSeq(resources, LAMBDA r : r # <<>> /\ Strip(r) # <<>>)

\* task_copy = task.copy() with "resource" in place of "resources": the copy
\* refers to the duration dict and the predecessors list of the task
SingleCopy(task, resource, heap) ==
    [task |-> [id |-> task.id, task_name |-> task.task_name,
               duration |-> task.duration,
               start_date |-> task.start_date,
               finish_date |-> task.finish_date,
               predecessors |-> task.predecessors,
               resource |-> resource],
     heap |-> heap]

\* the dict of one resource of several, referring to the duration dict and
\* the predecessors list of the task itself
MultiCopyShared(task, resource, heap) ==
    [task |-> [id |-> task.id, task_name |-> task.task_name,
               duration |-> task.duration,
               start_date |-> task.start_date,
               finish_date |-> task.finish_date,
               predecessors |-> task.predecessors,
               resource |-> resource],
     heap |-> heap]

\* the dict of one resource of several: task["duration"].copy() and
\* task["predecessors"].copy() (or a new empty list) are new objects
MultiCopy(task, resource, heap) ==
    [task |-> [id |-> task.id, task_name |-> task.task_name,
               duration |-> Len(heap) + 1,
               start_date |-> task.start_date,
               finish_date |-> task.finish_date,
               predecessors |-> Len(heap) + 2,
               resource |-> resource],
     heap |-> heap \o << heap[task.duration],
                         IF heap[task.predecessors].items # <<>>
                         THEN [items |-> heap[task.predecessors].items]
                         ELSE [items |-> <<>>] >>]

\* the inner loop "for resource in resources"
RECURSIVE ExpandMulti(_, _, _, _, _)
ExpandMulti(task, resources, k, expanded, heap) ==
    IF k > Len(resources) THEN [expanded |-> expanded, heap |-> heap]
    ELSE LET made == MultiCopy(task, resources[k], heap)
         IN  ExpandMulti(task, resources, k + 1,
                         Append(expanded, made.task), made.heap)

\* the loop "for task in tasks" of _expand_tasks_by_resource
RECURSIVE ExpandFrom(_, _, _, _)
ExpandFrom(tasks, i, expanded, heap) ==
    IF i > Len(tasks) THEN [expanded |-> expanded, heap |-> heap]
    ELSE LET resources == NonBlank(tasks[i].resources)
         IN  IF resources = <<>>
             THEN ExpandFrom(tasks, i + 1, expanded, heap)
             ELSE IF Len(resources) = 1
             THEN LET made == SingleCopy(tasks[i], resources[1], heap)
                  IN  ExpandFrom(tasks, i + 1, Append(expanded, made.task),
                                 made.heap)
             ELSE LET made == ExpandMulti(tasks[i], resources, 1, expanded, heap)
                  IN  ExpandFrom(tasks, i + 1, made.expanded, made.heap)

\* _expand_tasks_by_resource(tasks)
ExpandTasksByResource(tasks, heap) == ExpandFrom(tasks, 1, <<>>, heap)

\* the name extract_from_pdf gives the project
ProjectName == <<"P">>

\* a returned dict whose total_tasks counts the tasks ahead of the expansion
ProjectOfCountingInput(tasks, tasks_with_resources, expanded_tasks) ==
    [project |-> [name |-> ProjectName,
                  total_tasks |-> Len(tasks_with_resources),
                  total_tasks_scanned |-> Len(tasks),
                  original_tasks_with_resources |-> Len(tasks_with_resources)],
     tasks |-> expanded_tasks]

\* the dict extract_from_pdf returns (without extracted_at)
ProjectOf(tasks, tasks_with_resources, expanded_tasks) ==
    [project |-> [name |-> ProjectName,
                  total_tasks |-> Len(expanded_tasks),
                  total_tasks_scanned |-> Len(tasks),
                  original_tasks_with_resources |-> Len(tasks_with_resources)],
     tasks |-> expanded_tasks]

\* extract_from_pdf without its two "return None"
ExtractFromPdfAlways(lines) ==
    LET parsed == ParseTextToTasks(lines)
        tasks == parsed.tasks
        tasks_with_resources == SelectSeq(tasks, LAMBDA t : t.resources # <<>>)
        made == ExpandTasksByResource(tasks_with_resources, parsed.heap)
        expanded_tasks ==
            SelectSeq(made.expanded, LAMBDA t : Strip(t.resource) # <<>>)
    IN  [ret |-> ProjectOf(tasks, tasks_with_resources, expanded_tasks),
         tasks |-> tasks, heap |-> made.heap]

\* extract_from_pdf, from the parsed text on: the value returned, with the
\* task dicts of the parser and the objects they refer to
ExtractFromPdf(lines) ==
    LET parsed == ParseTextToTasks(lines)
        tasks == parsed.tasks
        tasks_with_resources == SelectSeq(tasks, LAMBDA t : t.resources # <<>>)
        made == ExpandTasksByResource(tasks_with_resources, parsed.heap)
        expanded_tasks ==
            SelectSeq(made.expanded, LAMBDA t : Strip(t.resource) # <<>>)
    IN  IF tasks_with_resources = <<>>
        THEN [ret |-> None, tasks |-> tasks, heap |-> parsed.heap]
        ELSE IF expanded_tasks = <<>>
        THEN [ret |-> None, tasks |-> tasks, heap |-> made.heap]
        ELSE [ret |-> ProjectOf(tasks, tasks_with_resources, expanded_tasks),
              tasks |-> tasks, heap |-> made.heap]

(***************************************************************************)
(* Inputs: the task lines of a scanned document                            *)
(***************************************************************************)
\* a line as _parse_task_line has split it, with the resource candidates in
\* the order found: one resource, two, one name in two letter cases, none,
\* and a list with a blank entry and a list of blank entries only (which
\* only a caller of the expander other than the parser can pass)
\* the string M/D/Y with a year of so many digits, and the same after a
\* three-letter word, as the date groups of the line pattern take them
Slash(m, d, y, digits) ==
    [words |-> << [w |-> "mdy", m |-> m, d |-> d, y |-> y, digits |-> digits] >>]

Weekday(name, m, d, yy) ==
    [words |-> << [w |-> "word", text |-> Chars(name)],
                  [w |-> "mdy", m |-> m, d |-> d, y |-> yy, digits |-> 2] >>]

LinePool ==
    { [id |-> <<"1">>, task_name |-> <<"T">>, duration |-> 4,
       start_date |-> Weekday("Wed", 6, 12, 24),
       finish_date |-> Weekday("Wed", 6, 19, 24),
       predecessors |-> <<>>,
       resources |-> << <<"A", "l">> >>],
      [id |-> <<"2">>, task_name |-> <<"u">>, duration |-> 1,
       start_date |-> Slash(6, 19, 24, 2),
       finish_date |-> Slash(7, 1, 2024, 4),
       predecessors |-> << <<"1">> >>,
       resources |-> << <<"A", "l">>, <<"B", "o">> >>],
      [id |-> <<"3">>, task_name |-> <<"T">>, duration |-> 2,
       start_date |-> Slash(13, 45, 25, 2),
       finish_date |-> Weekday("Wed", 6, 19, 24),
       predecessors |-> <<>>,
       resources |-> << <<"A", "l">>, <<"A", "L">> >>],
      [id |-> <<"4">>, task_name |-> <<"u">>, duration |-> 0,
       start_date |-> Slash(6, 12, 24, 2),
       finish_date |-> Slash(6, 12, 24, 2),
       predecessors |-> <<>>, resources |-> <<>>],
      [id |-> <<"5">>, task_name |-> <<"x">>, duration |-> 3,
       start_date |-> Weekday("Wed", 6, 12, 24),
       finish_date |-> Slash(2, 30, 24, 2),
       predecessors |-> << <<"4">> >>,
       resources |-> << <<"B", "o">>, <<" ">> >>],
      [id |-> <<"6">>, task_name |-> <<"x">>, duration |-> 1,
       start_date |-> Slash(7, 1, 2024, 4),
       finish_date |-> Slash(7, 1, 2024, 4),
       predecessors |-> <<>>,
       resources |-> << <<" ">>, <<>> >>] }

ScannedLines == SeqsUpTo(LinePool, MaxLines)

(***************************************************************************)
(* Idle values of the variables a specification does not use               *)
(***************************************************************************)
IdleK ==
    /\ task_count = 0
    /\ suggested = 0
    /\ kompleksitas_pp = 0
    /\ kompleksitas_merge = 0
    /\ k_done = {}

IdlePP ==
    /\ json_data = None
    /\ response = None
    /\ result = None
    /\ pp_pc = "idle"

IdleMerge ==
    /\ existing_data = None
    /\ new_data = None
    /\ final_results = None
    /\ remerged = None
    /\ merge_pc = "idle"

IdleBatch ==
    /\ folder = <<>>
    /\ tracking_file = None
    /\ output_file = None
    /\ pc = "idle"
    /\ processed_data = None
    /\ unprocessed_files = <<>>
    /\ existing_results = None
    /\ all_new_data = None
    /\ processed_count = 0
    /\ idx = 0
    /\ report = <<>>
    /\ runs = 0
    /\ disk_at_start = None
    /\ io_log = <<>>
    /\ summaries_by_hash = {}

IdleScan ==
    /\ scan_input = <<>>
    /\ scan_tasks = <<>>
    /\ scan_expanded = <<>>
    /\ scan_result = None
    /\ scan_heap = <<>>
    /\ scan_heap_before = <<>>
    /\ scan_mutated = 0
    /\ scan_pc = "idle"

IdleTest ==
    /\ ocr_text = None
    /\ llm_answer = None
    /\ test_result = None
    /\ test_pc = "idle"

IdleTokens ==
    /\ line_remaining = <<>>
    /\ line_predecessors = <<>>
    /\ line_resources = <<>>
    /\ tokens_pc = "idle"

IdleDate ==
    /\ date_input = EmptyString
    /\ date_result = None
    /\ date_pc = "idle"

(***************************************************************************)
(* SpecK: the step function applied to a task count                        *)
(***************************************************************************)
InitK ==
    /\ task_count \in 0..MaxCount
    /\ suggested \in 0..MaxSuggest
    /\ kompleksitas_pp = suggested
    /\ kompleksitas_merge = suggested
    /\ k_done = {}
    /\ IdlePP /\ IdleMerge /\ IdleBatch /\ IdleScan /\ IdleDate
    /\ IdleTokens /\ IdleTest

\* person["kompleksitas"] in post_process_result
KStepPostProcess ==
    /\ "post_process" \notin k_done
    /\ kompleksitas_pp' = KompleksitasPostProcess(task_count)
    /\ k_done' = k_done \cup {"post_process"}
    /\ UNCHANGED <<task_count, suggested, kompleksitas_merge, ppvars, mvars, bvars, scanvars, datevars, tokenvars, testvars>>

\* existing["kompleksitas"] in the collision branch of the merge
KStepMerge ==
    /\ "merge" \notin k_done
    /\ kompleksitas_merge' = KompleksitasMerge(task_count)
    /\ k_done' = k_done \cup {"merge"}
    /\ UNCHANGED <<task_count, suggested, kompleksitas_pp, ppvars, mvars, bvars, scanvars, datevars, tokenvars, testvars>>

NextK == KStepPostProcess \/ KStepMerge

SpecK == InitK /\ [][NextK]_vars

(***************************************************************************)
(* SpecPP: one call of extract_with_llm on a document                      *)
(***************************************************************************)
InitPP ==
    /\ json_data \in Docs
    /\ response \in Responses
    /\ result = None
    /\ pp_pc = "call"
    /\ IdleK /\ IdleMerge /\ IdleBatch /\ IdleScan /\ IdleDate
    /\ IdleTokens /\ IdleTest

CallExtractWithLlm ==
    /\ pp_pc = "call"
    /\ result' = ExtractWithLlm(json_data, response)
    /\ pp_pc' = "returned"
    /\ UNCHANGED <<json_data, response, kvars, mvars, bvars,
                 scanvars, datevars, tokenvars, testvars>>

\* extract_with_ollama of test.py on the same answer
CallExtractWithOllama ==
    /\ pp_pc = "call"
    /\ result' = ExtractWithOllama(response)
    /\ pp_pc' = "returned_ollama"
    /\ UNCHANGED <<json_data, response, kvars, mvars, bvars,
                 scanvars, datevars, tokenvars, testvars>>

NextPP == CallExtractWithLlm \/ CallExtractWithOllama

SpecPP == InitPP /\ [][NextPP]_vars

(***************************************************************************)
(* SpecMerge: one merge, then the merge of its output with itself          *)
(***************************************************************************)
InitMerge ==
    /\ \E entries \in SeqsUpTo(EntryPool, MaxEntries) :
         \E k \in 0..Len(entries) :
            /\ existing_data \in
                 {Shaped(SubSeq(entries, 1, k), sh) : sh \in Shapes}
            /\ new_data \in
                 {Shaped(SubSeq(entries, k + 1, Len(entries)), sh) : sh \in Shapes}
    /\ final_results = None
    /\ remerged = None
    /\ merge_pc = "call"
    /\ IdleK /\ IdlePP /\ IdleBatch /\ IdleScan /\ IdleDate
    /\ IdleTokens /\ IdleTest

\* final_results = merge_and_group_by_person(existing_results, all_new_data)
CallMerge ==
    /\ merge_pc = "call"
    /\ final_results' = MergeAndGroupByPerson(existing_data, new_data)
    /\ merge_pc' = "merged"
    /\ UNCHANGED <<existing_data, new_data, remerged, kvars, ppvars, bvars,
                 scanvars, datevars, tokenvars, testvars>>

\* the output as the existing dataset, its entries as the new data
CallMergeWithItself ==
    /\ merge_pc = "merged"
    /\ remerged' = MergeAndGroupByPerson(
                      final_results, FlatShape(ExistingToTemp(final_results)))
    /\ merge_pc' = "remerged"
    /\ UNCHANGED <<existing_data, new_data, final_results, kvars, ppvars, bvars,
                 scanvars, datevars, tokenvars, testvars>>

NextMerge == CallMerge \/ CallMergeWithItself

SpecMerge == InitMerge /\ [][NextMerge]_vars

(***************************************************************************)
(* Spec: batch runs of __main__                                            *)
(***************************************************************************)
Init ==
    /\ folder \in Folders
    /\ tracking_file = None
    /\ output_file = None
    /\ pc = "start"
    /\ processed_data = None
    /\ unprocessed_files = <<>>
    /\ existing_results = None
    /\ all_new_data = None
    /\ processed_count = 0
    /\ idx = 0
    /\ report = <<>>
    /\ runs = 1
    /\ disk_at_start = None
    /\ io_log = <<>>
    /\ summaries_by_hash = {}
    /\ IdleK /\ IdlePP /\ IdleMerge /\ IdleScan /\ IdleDate
    /\ IdleTokens /\ IdleTest

\* from the model check to the start of the loop over the unprocessed files
StartBatch ==
    /\ pc = "start"
    /\ \E model_found \in BOOLEAN :
         LET json_files == ScanJsonFiles(folder)
             ledger == LoadProcessedFiles(tracking_file)
             todo == GetUnprocessedFiles(json_files, ledger)
         IN  IF ~model_found \/ json_files = <<>>
             THEN /\ pc' = "exit_1"
                  /\ io_log' = StartEvents(FALSE, FALSE)
                  /\ UNCHANGED <<processed_data, unprocessed_files,
                                 existing_results, all_new_data>>
             ELSE IF todo = <<>>
             THEN /\ pc' = "exit_0"
                  /\ io_log' = StartEvents(TRUE, FALSE)
                  /\ processed_data' = ledger
                  /\ unprocessed_files' = todo
                  /\ UNCHANGED <<existing_results, all_new_data>>
             ELSE /\ pc' = "loop"
                  /\ io_log' = StartEvents(TRUE, TRUE)
                  /\ processed_data' = ledger
                  /\ unprocessed_files' = todo
                  /\ existing_results' = LoadExistingResults(output_file)
                  /\ all_new_data' = [data |-> <<>>]
    /\ processed_count' = 0
    /\ idx' = 1
    /\ report' = <<>>
    /\ disk_at_start' = [tracking_file |-> tracking_file,
                         output_file |-> output_file]
    /\ UNCHANGED <<diskvars, runs, summaries_by_hash, kvars, ppvars, mvars, scanvars, datevars, tokenvars, testvars>>

\* one iteration of "for idx, file_info in enumerate(unprocessed_files, 1)";
\* an exception that nothing catches ends the process with pc naming it
ProcessFile ==
    /\ pc = "loop"
    /\ idx <= Len(unprocessed_files)
    /\ \E resp \in BatchResponses :
         LET file_info == unprocessed_files[idx]
             doc == LoadJsonFile(folder, file_info.path)
             res == ExtractWithLlm(doc, resp)
         IN  /\ IF doc = None                              \* if not json_data
                THEN /\ report' = Append(report, "skipped")
                     /\ io_log' = io_log \o DocumentEvents(file_info)
                     /\ pc' = pc
                     /\ idx' = idx + 1
                     /\ UNCHANGED <<all_new_data, processed_data, processed_count>>
                ELSE IF ~IsDict(doc)                       \* json_data.get raises
                THEN /\ pc' = "AttributeError"
                     /\ io_log' = io_log \o DocumentEvents(file_info)
                     /\ UNCHANGED <<all_new_data, processed_data, processed_count,
                                    report, idx>>
                ELSE IF res = Raised                       \* task.get raises
                THEN /\ pc' = "AttributeError"
                     /\ io_log' = io_log \o DocumentEvents(file_info)
                                         \o ExtractEvents(file_info)
                     /\ UNCHANGED <<all_new_data, processed_data, processed_count,
                                    report, idx>>
                ELSE IF Truthy(res)
                THEN /\ all_new_data' =
                           [all_new_data EXCEPT !.data = @ \o Get(res, "data", <<>>)]
                     /\ io_log' = io_log \o DocumentEvents(file_info)
                                         \o ExtractEvents(file_info)
                     /\ IF "processed_files" \in DOMAIN processed_data
                        THEN /\ processed_data' =
                                   [processed_data EXCEPT !.processed_files =
                                       Append(@, [name |-> file_info.name,
                                                  hash |-> file_info.hash,
                                                  project |-> doc.project.name])]
                             /\ processed_count' = processed_count + 1
                             /\ report' = Append(report, "processed")
                             /\ pc' = pc
                             /\ idx' = idx + 1
                        ELSE /\ pc' = "KeyError"     \* processed_data["processed_files"]
                             /\ UNCHANGED <<processed_data, processed_count,
                                            report, idx>>
                ELSE /\ report' = Append(report, "failed")
                     /\ io_log' = io_log \o DocumentEvents(file_info)
                                         \o ExtractEvents(file_info)
                     /\ pc' = pc
                     /\ idx' = idx + 1
                     /\ UNCHANGED <<all_new_data, processed_data, processed_count>>
             /\ summaries_by_hash' =
                  IF /\ doc # None /\ IsDict(doc)
                     /\ res # Raised /\ Truthy(res)
                     /\ "processed_files" \in DOMAIN processed_data
                  THEN {given \in summaries_by_hash :
                            given.hash # file_info.hash} \cup
                           { [hash |-> file_info.hash,
                              key |-> <<Lower(Get(person, "fullname", <<>>)),
                                        Lower(Get(person, "project", <<>>))>>,
                              tasks |-> Range(Get(person, "tasks", <<>>))] :
                               person \in Range(Get(res, "data", <<>>)) }
                  ELSE summaries_by_hash
    /\ UNCHANGED <<diskvars, unprocessed_files, existing_results, runs,
                   disk_at_start, kvars, ppvars, mvars, scanvars, datevars, tokenvars, testvars>>

\* after the loop: "if processed_count > 0" merge and save, else save nothing
FinishBatch ==
    /\ pc = "loop"
    /\ idx > Len(unprocessed_files)
    /\ IF processed_count > 0
       THEN /\ output_file' = MergeAndGroupByPerson(existing_results, all_new_data)
            /\ tracking_file' = processed_data
       ELSE UNCHANGED <<output_file, tracking_file>>
    /\ io_log' = io_log \o FinishEvents(processed_count)
    /\ pc' = "done"
    /\ UNCHANGED <<folder, processed_data, unprocessed_files, existing_results,
                   all_new_data, processed_count, idx, report, runs,
                   disk_at_start, summaries_by_hash, kvars, ppvars, mvars, scanvars, datevars, tokenvars, testvars>>

\* the script is started again on the same folder, as a new process; the
\* two persisted files are as the last run left them or have been damaged
RunAgain ==
    /\ pc \in {"done", "exit_0", "exit_1", "AttributeError", "KeyError"}
    /\ runs < MaxRuns
    /\ runs' = runs + 1
    /\ pc' = "start"
    /\ tracking_file' \in LedgerStates(tracking_file)
    /\ output_file' \in DatasetStates(output_file)
    /\ processed_data' = None
    /\ unprocessed_files' = <<>>
    /\ existing_results' = None
    /\ all_new_data' = None
    /\ processed_count' = 0
    /\ idx' = 0
    /\ report' = <<>>
    /\ disk_at_start' = None
    /\ io_log' = <<>>
    /\ UNCHANGED <<folder, summaries_by_hash, kvars, ppvars, mvars, scanvars,
                   datevars, tokenvars, testvars>>

Next == StartBatch \/ ProcessFile \/ FinishBatch \/ RunAgain

Spec == Init /\ [][Next]_vars

(***************************************************************************)
(* SpecScan: one call of extract_from_pdf, or one call of the Task         *)
(* Expander followed by a change the caller makes to a task it returned    *)
(***************************************************************************)
InitScan ==
    /\ scan_input \in ScannedLines
    /\ scan_tasks = <<>>
    /\ scan_expanded = <<>>
    /\ scan_result = None
    /\ scan_heap = <<>>
    /\ scan_heap_before = <<>>
    /\ scan_mutated = 0
    /\ scan_pc = "input"
    /\ IdleK /\ IdlePP /\ IdleMerge /\ IdleBatch /\ IdleDate
    /\ IdleTokens /\ IdleTest

\* extract_from_pdf on a document with these task lines
CallExtractFromPdf ==
    /\ scan_pc = "input"
    /\ LET made == ExtractFromPdf(scan_input)
       IN  /\ scan_result' = made.ret
           /\ scan_tasks' = made.tasks
           /\ scan_heap' = made.heap
           /\ scan_heap_before' = made.heap
    /\ scan_pc' = "extracted"
    /\ UNCHANGED <<scan_input, scan_expanded, scan_mutated,
                   kvars, ppvars, mvars, bvars,
                   datevars, tokenvars, testvars>>

\* _expand_tasks_by_resource on task dicts with these resources lists
CallExpandTasksByResource ==
    /\ scan_pc = "input"
    /\ LET built == BuildTasks(scan_input, 1, <<>>, <<>>)
           made == ExpandTasksByResource(built.tasks, built.heap)
       IN  /\ scan_tasks' = built.tasks
           /\ scan_expanded' = made.expanded
           /\ scan_heap' = made.heap
           /\ scan_heap_before' = made.heap
    /\ scan_pc' = "expanded"
    /\ UNCHANGED <<scan_input, scan_result, scan_mutated,
                   kvars, ppvars, mvars, bvars,
                   datevars, tokenvars, testvars>>

\* the caller changes one returned task in place:
\* expanded[k]["predecessors"].append("9")
AppendPredecessor ==
    /\ scan_pc = "expanded"
    /\ \E k \in 1..Len(scan_expanded) :
         /\ scan_heap' =
              [scan_heap EXCEPT ![scan_expanded[k].predecessors].items =
                                    Append(@, <<"9">>)]
         /\ scan_mutated' = k
    /\ scan_pc' = "changed"
    /\ UNCHANGED <<scan_input, scan_tasks, scan_expanded, scan_result,
                   scan_heap_before, kvars, ppvars, mvars, bvars,
                   datevars, tokenvars, testvars>>

\* the caller changes one returned task in place:
\* expanded[k]["duration"]["value"] = 99
SetDurationValue ==
    /\ scan_pc = "expanded"
    /\ \E k \in 1..Len(scan_expanded) :
         /\ scan_heap' = [scan_heap EXCEPT ![scan_expanded[k].duration].value = 99]
         /\ scan_mutated' = k
    /\ scan_pc' = "changed"
    /\ UNCHANGED <<scan_input, scan_tasks, scan_expanded, scan_result,
                   scan_heap_before, kvars, ppvars, mvars, bvars,
                   datevars, tokenvars, testvars>>

NextScan ==
    \/ CallExtractFromPdf
    \/ CallExpandTasksByResource
    \/ AppendPredecessor
    \/ SetDurationValue

SpecScan == InitScan /\ [][NextScan]_vars

(***************************************************************************)
(* SpecTest: extract_project_data_with_llm of test.py on one document      *)
(***************************************************************************)
\* the summaries an answer of the model may hold: fields missing, a name
\* too short to keep, a kompleksitas outside 1..5, and one that is the step
\* function of its total_tasks
AnswerPersonPool ==
    { [fullname |-> <<"A", "l">>, project |-> <<>>, total_tasks |-> 12,
       duration_days |-> 30, kompleksitas |-> 2],
      [fullname |-> <<" ", "B", "O", " ">>, project |-> <<"Q">>,
       total_tasks |-> 3, duration_days |-> 5, kompleksitas |-> 9],
      [fullname |-> <<"x">>, project |-> <<"Q">>, total_tasks |-> 1,
       kompleksitas |-> 1],
      [fullname |-> <<"a", "l">>, total_tasks |-> 0],
      [fullname |-> <<"b", "o">>, project |-> UnknownProject,
       total_tasks |-> 7, kompleksitas |-> 3] }

\* what extract_with_ollama returns: None or the parsed object
OllamaAnswers ==
    {None} \cup {[data |-> persons] : persons \in SeqsUpTo(AnswerPersonPool, MaxPersons)}

\* the lines of a text: task lines with a predecessor and without one, and
\* a line that only mentions a name
OcrLinePool ==
    { [names |-> << <<"A", "l">> >>, listed |-> TRUE, dates |-> 2,
       durations |-> <<4>>],
      [names |-> << <<"A", "l">>, <<"B", "o">> >>, listed |-> TRUE,
       dates |-> 2, durations |-> <<30>>],
      [names |-> << <<"B", "o">> >>, listed |-> FALSE, dates |-> 2,
       durations |-> <<10>>],
      [names |-> << <<"B", "o">>, <<"t", "a", "s", "k", "s">> >>,
       listed |-> TRUE, dates |-> 2, durations |-> <<>>],
      [names |-> << <<"A", "l">> >>, listed |-> FALSE, dates |-> 0,
       durations |-> <<>>] }

OcrTexts ==
    { [project |-> project, lines |-> lines] :
        project \in { <<>>, <<"P">> },
        lines \in SeqsUpTo(OcrLinePool, MaxOcrLines) \ { <<>> } }

InitTest ==
    /\ ocr_text \in OcrTexts
    /\ llm_answer \in OllamaAnswers
    /\ test_result = None
    /\ test_pc = "input"
    /\ IdleK /\ IdlePP /\ IdleMerge /\ IdleBatch /\ IdleScan /\ IdleDate
    /\ IdleTokens

\* extract_project_data_with_llm when extract_with_ollama gave nothing:
\* return fallback_extraction(ocr_text, output_file_path)
ReturnFallback ==
    /\ test_pc = "input"
    /\ llm_answer = None
    /\ test_result' = FallbackExtraction(ocr_text)
    /\ test_pc' = "fallback"
    /\ UNCHANGED <<ocr_text, llm_answer, kvars, ppvars, mvars, bvars, scanvars,
                   datevars, tokenvars>>

\* extract_project_data_with_llm when extract_with_ollama gave an answer:
\* refine_with_post_processing, and None when no summary is left
ReturnRefined ==
    /\ test_pc = "input"
    /\ llm_answer # None
    /\ LET refined == RefineWithPostProcessing(llm_answer, ocr_text)
       IN  test_result' = IF refined.data = <<>> THEN None ELSE refined
    /\ test_pc' = "refined"
    /\ UNCHANGED <<ocr_text, llm_answer, kvars, ppvars, mvars, bvars, scanvars,
                   datevars, tokenvars>>

NextTest == ReturnFallback \/ ReturnRefined

SpecTest == InitTest /\ [][NextTest]_vars

(***************************************************************************)
(* SpecTokens: the tokens behind the dates of one task line                *)
(***************************************************************************)
\* the names a comma-joined token is made of: names the classifier accepts
\* alone (Bob, Al) and names it rejects (a month prefix, a weekday prefix, a
\* date, a number, a calendar label, a word of the exclude list)
NamePool ==
    { <<"B", "o", "b">>, <<"A", "l">>, <<"J", "a", "n">>,
      <<"M", "a", "r", "k">>, <<"S", "u", "n", "n", "y">>,
      <<"6", "/", "1", "2", "/", "2", "4">>, <<"7">>, <<"M">>,
      <<"t", "a", "s", "k">> }

\* ",".join(names)
RECURSIVE JoinComma(_)
JoinComma(names) ==
    IF Len(names) = 0 THEN <<>>
    ELSE IF Len(names) = 1 THEN names[1]
    ELSE names[1] \o <<",">> \o JoinComma(Tail(names))

\* the rest of a line: nothing or a predecessor id, then one token of one to
\* MaxNames names joined by commas
RemainingTokens ==
    { ahead \o <<JoinComma(names)>> :
        ahead \in { <<>>, << <<"7">> >> },
        names \in SeqsUpTo(NamePool, MaxNames) \ { <<>> } }

InitTokens ==
    /\ line_remaining \in RemainingTokens
    /\ line_predecessors = <<>>
    /\ line_resources = <<>>
    /\ tokens_pc = "input"
    /\ IdleK /\ IdlePP /\ IdleMerge /\ IdleBatch /\ IdleScan /\ IdleDate
    /\ IdleTest

\* _parse_task_line on a line whose rest is these tokens
CallParseTaskLine ==
    /\ tokens_pc = "input"
    /\ LET made == ParseRemaining(line_remaining)
       IN  /\ line_predecessors' = made.predecessors
           /\ line_resources' = made.resources
    /\ tokens_pc' = "parsed"
    /\ UNCHANGED <<line_remaining, kvars, ppvars, mvars, bvars, scanvars,
                   datevars, testvars>>

NextTokens == CallParseTaskLine

SpecTokens == InitTokens /\ [][NextTokens]_vars

(***************************************************************************)
(* SpecDate: try_parse_date applied to one string                          *)
(***************************************************************************)
\* the strings try_parse_date is given: M/D/Y with a year of two, three or
\* four digits, YYYY-MM-DD, and month name, day and year with and without the
\* comma and the apostrophe, each alone and after a weekday name; dates of
\* the calendar and others (month 13, day 45, February 29 and 30)
WithPrefix(name, body) ==
    IF name = "" THEN body
    ELSE << [w |-> "word", text |-> Chars(name)] >> \o body

NumericBodies ==
    { << [w |-> "mdy", m |-> m, d |-> d, y |-> yr[1], digits |-> yr[2]] >> :
        m \in {2, 6, 13}, d \in {12, 29, 45},
        yr \in { <<24, 2>>, <<25, 2>>, <<2024, 4>>, <<243, 3>> } }

NamedBodies ==
    { << [w |-> "word", text |-> Chars(mon)],
         [w |-> "day", d |-> d, comma |-> comma],
         [w |-> "year", y |-> yr[1], digits |-> yr[2], apostrophe |-> yr[3]] >> :
        mon \in {"Jul", "July", "Feb"}, d \in {20, 30}, comma \in BOOLEAN,
        yr \in { <<25, 2, TRUE>>, <<2025, 4, FALSE>>, <<25, 2, FALSE>> } }

IsoBodies ==
    { << [w |-> "iso", y |-> 2024, m |-> m, d |-> 12] >> : m \in {6, 13} }

DateStrings ==
    {EmptyString} \cup
    { [words |-> WithPrefix(name, body)] :
        name \in {"", "Wed", "Sun", "Sunday"},
        body \in NumericBodies \cup NamedBodies \cup IsoBodies }

InitDate ==
    /\ date_input \in DateStrings
    /\ date_result = None
    /\ date_pc = "input"
    /\ IdleK /\ IdlePP /\ IdleMerge /\ IdleBatch /\ IdleScan
    /\ IdleTokens /\ IdleTest

\* try_parse_date(s)
CallTryParseDate ==
    /\ date_pc = "input"
    /\ date_result' = TryParseDate(date_input)
    /\ date_pc' = "returned"
    /\ UNCHANGED <<date_input, kvars, ppvars, mvars, bvars, scanvars, tokenvars, testvars>>

NextDate == CallTryParseDate

SpecDate == InitDate /\ [][NextDate]_vars

(***************************************************************************)
(* Properties                                                              *)
(***************************************************************************)
\* the step function as the specification tabulates it
StepFunction(n) ==
    CASE n \in {0, 1} -> 1
      [] n \in 2..4 -> 2
      [] n \in 5..9 -> 3
      [] n \in 10..14 -> 4
      [] OTHER -> 5

\* extract_with_llm has returned a corrected structure
ReturnedData == pp_pc = "returned" /\ "data" \in DOMAIN result

\* indices of the canonical tasks whose resource equals name case-insensitively
TasksOf(name) ==
    {j \in 1..Len(json_data.tasks) :
        Lower(json_data.tasks[j].resource) = Lower(name)}

\* the k-th index of a set of indices, in increasing order
KthOf(S, k) == CHOOSE j \in S : Cardinality({x \in S : x < j}) = k - 1

EarliestStart(S) ==
    IF S = {} THEN 0
    ELSE CHOOSE d \in {json_data.tasks[j].start_date : j \in S} :
            \A j \in S : d <= json_data.tasks[j].start_date

LatestFinish(S) ==
    IF S = {} THEN 0
    ELSE CHOOSE d \in {json_data.tasks[j].finish_date : j \in S} :
            \A j \in S : d >= json_data.tasks[j].finish_date

\* C1: after the correction pass every person entry has start_date,
\* finish_date, total_tasks, tasks and kompleksitas equal to the values derived
\* from the canonical tasks whose resource equals its fullname
\* case-insensitively (earliest start, latest finish, count, lowercased names
\* in document order, step function of the count), whatever the model put in.
C1_FactsFromCanonicalTasks ==
    ReturnedData =>
        \A i \in 1..Len(result.data) :
            LET e == result.data[i]
                mine == TasksOf(e.fullname)
            IN  /\ e.start_date = EarliestStart(mine)
                /\ e.finish_date = LatestFinish(mine)
                /\ e.total_tasks = Cardinality(mine)
                /\ Len(e.tasks) = Cardinality(mine)
                /\ \A k \in 1..Len(e.tasks) :
                     e.tasks[k] = Lower(json_data.tasks[KthOf(mine, k)].task_name)
                /\ e.kompleksitas = StepFunction(Cardinality(mine))

\* C1 witness: a corrected entry with canonical tasks whose model answer
\* held another count, other dates and another complexity
C1_Witness ==
    /\ ReturnedData
    /\ \E i \in 1..Len(result.data) :
         /\ result.data[i].total_tasks >= 2
         /\ "total_tasks" \in DOMAIN response.data[i]
         /\ response.data[i].total_tasks # result.data[i].total_tasks
         /\ response.data[i].start_date # result.data[i].start_date
         /\ response.data[i].kompleksitas # result.data[i].kompleksitas
         /\ response.data[i].fullname # result.data[i].fullname

\* C2: the complexity computed from a task count is 1 for 0..1, 2 for 2..4,
\* 3 for 5..9, 4 for 10..14 and 5 from 15 on, whatever the model suggested,
\* and the copy in the correction pass and the copy in the merge agree.
C2_StepFunctionBothCopies ==
    /\ "post_process" \in k_done => kompleksitas_pp = StepFunction(task_count)
    /\ "merge" \in k_done => kompleksitas_merge = StepFunction(task_count)
    /\ k_done = {"post_process", "merge"} => kompleksitas_pp = kompleksitas_merge

\* C2 witness: both copies ran on a count of at least 15 and replaced a
\* different suggestion
C2_Witness ==
    /\ k_done = {"post_process", "merge"}
    /\ task_count >= 15
    /\ suggested # kompleksitas_pp
    /\ kompleksitas_merge = 5

\* C3: after the correction pass an end_date or duration_days of a person
\* entry is absent or equal to the value derived from the canonical tasks of
\* that resource (latest finish; inclusive span in days).
C3_NoModelEndDateOrDuration ==
    ReturnedData =>
        \A i \in 1..Len(result.data) :
            LET e == result.data[i]
                mine == TasksOf(e.fullname)
            IN  /\ "end_date" \in DOMAIN e => e.end_date = LatestFinish(mine)
                /\ "duration_days" \in DOMAIN e =>
                     e.duration_days =
                        IF mine = {} THEN 0
                        ELSE LatestFinish(mine) - EarliestStart(mine) + 1

\* C4: after the correction pass the fullnames of the output are exactly the
\* lowercased canonical resource names, one entry per name.
C4_OneEntryPerCanonicalResource ==
    ReturnedData =>
        /\ {result.data[i].fullname : i \in 1..Len(result.data)}
             = {Lower(json_data.tasks[j].resource) : j \in 1..Len(json_data.tasks)}
        /\ \A i, k \in 1..Len(result.data) :
             result.data[i].fullname = result.data[k].fullname => i = k

\* C5: the project of every corrected entry is the lowercased canonical
\* project name, and the only keys of the model that survive the pass
\* unverified are phase labels.
C5_ProjectIsCanonical ==
    ReturnedData =>
        \A i \in 1..Len(result.data) :
            LET e == result.data[i]
            IN  /\ e.project = Lower(json_data.project.name)
                /\ (DOMAIN e) \ CorrectedKeys \subseteq {"phases"}

\* the (fullname, project) entries of a dataset, read in whichever of the two
\* persisted shapes it has
EntriesOfDataset(d) ==
    ( IF "people" \in DOMAIN d
      THEN UNION { { [fullname |-> d.people[i].fullname,
                      summary |-> d.people[i].projects[j]] :
                        j \in 1..Len(d.people[i].projects) } :
                   i \in 1..Len(d.people) }
      ELSE {} )
    \cup
    ( IF "data" \in DOMAIN d
      THEN { [fullname |-> d.data[i].fullname, summary |-> d.data[i]] :
                i \in 1..Len(d.data) }
      ELSE {} )

KeyOf(e) == <<Lower(e.fullname), Lower(e.summary.project)>>

\* the output entries of a grouped dataset with their keys as written
OutputKeys(d) == {<<e.fullname, e.summary.project>> : e \in EntriesOfDataset(d)}

SameSummary(a, b) ==
    /\ a.project = b.project
    /\ Range(a.tasks) = Range(b.tasks)
    /\ a.total_tasks = b.total_tasks
    /\ a.start_date = b.start_date
    /\ a.finish_date = b.finish_date
    /\ a.kompleksitas = b.kompleksitas

\* C7: merging a dataset D with itself (D as the existing dataset, D's entries
\* as the new data) yields the same people and projects and, for each entry,
\* the same tasks, total_tasks, start_date, finish_date and kompleksitas.
\* (Tasks are compared as sets: the order of the list is not held against it.)
C7_MergeIdempotent ==
    merge_pc = "remerged" =>
        /\ Len(remerged.people) = Len(final_results.people)
        /\ \A i \in 1..Len(remerged.people) :
             LET a == remerged.people[i]
                 b == final_results.people[i]
             IN  /\ a.fullname = b.fullname
                 /\ Len(a.projects) = Len(b.projects)
                 /\ \A j \in 1..Len(a.projects) :
                      SameSummary(a.projects[j], b.projects[j])

\* the merge was given its inputs in the shapes it reads: grouped existing
\* dataset, flat new data
ReadShapes == "people" \in DOMAIN existing_data /\ "data" \in DOMAIN new_data

\* the entries of both inputs that share a key
Colliding(key) ==
    { [side |-> "existing", at |-> i, summary |-> existing_data.people[i].projects[1]] :
        i \in {i \in 1..Len(existing_data.people) :
                 <<Lower(existing_data.people[i].fullname),
                   Lower(existing_data.people[i].projects[1].project)>> = key} }
    \cup
    { [side |-> "new", at |-> i, summary |-> new_data.data[i]] :
        i \in {i \in 1..Len(new_data.data) :
                 <<Lower(new_data.data[i].fullname),
                   Lower(new_data.data[i].project)>> = key} }

MinNonEmpty(dates) ==
    IF dates \ {0} = {} THEN 0
    ELSE CHOOSE d \in dates \ {0} : \A e \in dates \ {0} : d <= e

MaxNonEmpty(dates) ==
    IF dates \ {0} = {} THEN 0
    ELSE CHOOSE d \in dates \ {0} : \A e \in dates \ {0} : d >= e

Keys == {<<Lower(e.fullname), Lower(e.project)>> : e \in EntryPool}

\* C8: when two or more input entries share the key (lowercased fullname,
\* lowercased project), the one output entry of that key has tasks equal to the
\* union of their task names (no name twice), total_tasks the size of the
\* union, start_date the minimum non-empty start, finish_date the maximum
\* non-empty finish and kompleksitas the step function of total_tasks, in
\* whatever order the colliding entries come.
C8_CollisionRule ==
    (merge_pc = "merged" /\ ReadShapes) =>
        \A key \in Keys :
            LET group == Colliding(key)
                union == UNION {Range(g.summary.tasks) : g \in group}
                out == {e \in EntriesOfDataset(final_results) :
                            <<e.fullname, e.summary.project>> = key}
            IN  Cardinality(group) >= 2 =>
                  /\ Cardinality(out) = 1
                  /\ \A e \in out :
                       /\ Range(e.summary.tasks) = union
                       /\ Len(e.summary.tasks) = Cardinality(union)
                       /\ e.summary.total_tasks = Cardinality(union)
                       /\ e.summary.start_date =
                            MinNonEmpty({g.summary.start_date : g \in group})
                       /\ e.summary.finish_date =
                            MaxNonEmpty({g.summary.finish_date : g \in group})
                       /\ e.summary.kompleksitas =
                            StepFunction(e.summary.total_tasks)

\* C8 witness: three entries from both sides collided on one key, one of
\* them with an empty start date, with task lists that overlap
C8_Witness ==
    /\ merge_pc = "merged" /\ ReadShapes
    /\ \E key \in Keys :
         LET group == Colliding(key)
         IN  /\ Cardinality(group) = 3
             /\ {g.side : g \in group} = {"existing", "new"}
             /\ \E g \in group : g.summary.start_date = 0
             /\ \E g \in group : g.summary.start_date # 0
             /\ \E g, h \in group :
                  g # h /\ Range(g.summary.tasks) \cap Range(h.summary.tasks) # {}
             /\ Cardinality(UNION {Range(g.summary.tasks) : g \in group}) = 3

\* the outputs the merge has produced so far
MergeOutputs ==
    (IF merge_pc \in {"merged", "remerged"} THEN {final_results} ELSE {})
    \cup (IF merge_pc = "remerged" THEN {remerged} ELSE {})

\* C9: in every merge output each fullname (compared without letter case) is
\* in exactly one person record, no person holds a project twice, people are
\* in increasing order of fullname and each person's projects in increasing
\* order of project name.
C9_GroupedAndOrdered ==
    \A d \in MergeOutputs :
        /\ \A i, k \in 1..Len(d.people) :
             Lower(d.people[i].fullname) = Lower(d.people[k].fullname) => i = k
        /\ \A i \in 1..(Len(d.people) - 1) :
             StrLt(d.people[i].fullname, d.people[i + 1].fullname)
        /\ \A i \in 1..Len(d.people) :
             LET ps == d.people[i].projects
             IN  /\ \A j, k \in 1..Len(ps) :
                      Lower(ps[j].project) = Lower(ps[k].project) => j = k
                 /\ \A j \in 1..(Len(ps) - 1) :
                      StrLt(ps[j].project, ps[j + 1].project)

\* C9 witness: inputs naming one person in two letter cases and in two
\* projects given out of order came out as one record next to another person
C9_Witness ==
    /\ merge_pc = "merged" /\ ReadShapes
    /\ \E i \in 1..Len(existing_data.people) :
         existing_data.people[i].fullname = <<"A", "l">>
    /\ Len(new_data.data) = 2
    /\ new_data.data[1].fullname = <<"a", "l">>
    /\ new_data.data[1].project = <<"q">>
    /\ new_data.data[2].fullname = <<"b", "o">>
    /\ Len(final_results.people) = 2
    /\ Len(final_results.people[1].projects) = 2

\* C10: every (fullname, project) entry of either input, in the grouped or
\* the flat shape, on the existing side or the new side, is in the output.
C10_BothShapesBothSides ==
    merge_pc = "merged" =>
        \A e \in EntriesOfDataset(existing_data) \cup EntriesOfDataset(new_data) :
            KeyOf(e) \in OutputKeys(final_results)

\* the documents of this batch that were loaded and for which the model call
\* gave no result
FailedDocuments ==
    {i \in 1..Len(report) : report[i] = "failed"}

\* C6: when the model call fails for a document that has canonical tasks, the
\* batch still ends with person summaries of that document in the dataset
\* (one per resource of the document, under the document's project).
C6_FallbackOnModelFailure ==
    pc = "done" =>
        \A i \in FailedDocuments :
            LET doc == LoadJsonFile(folder, unprocessed_files[i].path)
            IN  \A j \in 1..Len(doc.tasks) :
                    <<Lower(doc.tasks[j].resource), Lower(doc.project.name)>>
                        \in OutputKeys(output_file)

(***************************************************************************)
(* Batch runs: ledger, persistence, failure isolation                      *)
(***************************************************************************)
\* the run has passed StartBatch
RunStarted == pc \in {"loop", "done", "exit_0", "exit_1", "AttributeError", "KeyError"}

\* the hashes recorded in a ledger file as load_processed_files reads it
RecordedHashes(file) ==
    LET recorded == Get(LoadProcessedFiles(file), "processed_files", <<>>)
    IN  {recorded[i].hash : i \in 1..Len(recorded)}

\* the hash of the file of the folder with this name
HashOf(name) ==
    GetFileHash(folder[CHOOSE i \in 1..Len(folder) : folder[i].name = name])

\* the names of the files passed to extract_with_llm in this run so far
ExtractedNames ==
    {io_log[i].arg : i \in {j \in 1..Len(io_log) : io_log[j].op = "extract"}}

\* the operations of this run on the two persisted files
Loads(arg) == {i \in 1..Len(io_log) : io_log[i] = [op |-> "load", arg |-> arg]}
Saves(arg) == {i \in 1..Len(io_log) : io_log[i] = [op |-> "save", arg |-> arg]}
DocumentSteps == {i \in 1..Len(io_log) : io_log[i].op = "document"}

DiskUntouched ==
    /\ tracking_file = disk_at_start.tracking_file
    /\ output_file = disk_at_start.output_file

\* C11: in every run of a sequence of batch runs, no document whose content
\* hash is recorded in the ledger the run found is passed to extraction, and a
\* run in which every scanned document is in the ledger ("exit_0") leaves the
\* dataset and the ledger as they were and extracts nothing.
C11_RecordedNeverExtractedAgain ==
    RunStarted =>
        /\ \A name \in ExtractedNames :
              HashOf(name) \notin RecordedHashes(disk_at_start.tracking_file)
        /\ pc = "exit_0" => (DiskUntouched /\ ExtractedNames = {} /\ Saves("dataset") = {}
                                /\ Saves("ledger") = {})

\* a second run that finds a recorded document in the folder, skips it and
\* extracts another one
C11_Witness ==
    /\ runs = 2
    /\ pc = "done"
    /\ ExtractedNames # {}
    /\ \E i \in 1..Len(folder) :
          GetFileHash(folder[i]) \in RecordedHashes(disk_at_start.tracking_file)

\* C12: a finished batch run has saved the dataset or the ledger only if some
\* document of the batch yielded a result with at least one person summary;
\* when none did, nothing is saved and both files are as the run found them.
C12_SavedOnlyWithUsableData ==
    (pc = "done" /\ all_new_data.data = <<>>) =>
        (DiskUntouched /\ Saves("dataset") = {} /\ Saves("ledger") = {})

\* C13: a run that finds a ledger file that is no JSON, or is JSON and not a
\* ledger, goes on with an empty ledger (every scanned file is unprocessed)
\* and is not ended by an exception from the ledger; a run that finds a
\* dataset file that is no JSON goes on with an empty dataset.
C13_DamagedFilesStartFresh ==
    RunStarted =>
        /\ disk_at_start.tracking_file \in {InvalidJson, UnexpectedObject} =>
              /\ pc # "KeyError"
              /\ pc # "exit_1" => Len(unprocessed_files) = Len(folder)
        /\ (disk_at_start.output_file = InvalidJson /\ pc \in {"loop", "done"}) =>
              existing_results = [people |-> <<>>]

\* the names recorded in a ledger file as load_processed_files reads it
RecordedNames(file) ==
    LET recorded == Get(LoadProcessedFiles(file), "processed_files", <<>>)
    IN  {recorded[i].name : i \in 1..Len(recorded)}

\* C14: no document ends the batch run with an exception, whatever it
\* holds; and when the run is done, no document that was skipped or failed
\* is recorded in the ledger, while every document that succeeded is recorded
\* in the ledger file and the dataset has been saved.
C14_FailureIsolation ==
    /\ pc # "AttributeError"
    /\ pc = "done" =>
          \A k \in 1..Len(report) :
              IF report[k] = "processed"
              THEN /\ unprocessed_files[k].name \in RecordedNames(tracking_file)
                   /\ Saves("dataset") # {}
              ELSE unprocessed_files[k].name \notin RecordedNames(tracking_file)

\* the order of the file operations of a run: every load is ahead of every
\* document, every document is ahead of every save, and neither file is
\* loaded or saved twice
LoadsDocumentsSaves ==
    /\ \A arg \in {"ledger", "dataset"} :
          /\ Cardinality(Loads(arg)) <= 1
          /\ Cardinality(Saves(arg)) <= 1
          /\ \A l \in Loads(arg) : \A d \in DocumentSteps : l < d
          /\ \A w \in Saves(arg) : \A d \in DocumentSteps : d < w
    /\ pc = "loop" => (Saves("ledger") = {} /\ Saves("dataset") = {})

WellFormedAnswer ==
    /\ \/ response.kind = "data"
       \/ response.kind = "text" /\ StripFences(response.layout) = <<"object">>
    /\ \A i \in 1..Len(response.data) : IsDict(response.data[i])

\* C15: extract_with_llm returns either None or a structure whose data holds
\* one entry per entry of the answer, each an object that carries the keys the
\* correction pass assigns, with its fullname stripped and lowercased, its
\* total_tasks the number of its canonical tasks and its kompleksitas the step
\* function of that number; for an answer that is a failed call, not JSON, of
\* the wrong shape or has an entry that is not an object it returns None.
C15_NoneOrFullyCorrected ==
    pp_pc = "returned" =>
        IF WellFormedAnswer
        THEN /\ result # None
             /\ Len(result.data) = Len(response.data)
             /\ \A i \in 1..Len(result.data) :
                   LET e == result.data[i]
                   IN  /\ IsDict(e)
                       /\ CorrectedKeys \subseteq DOMAIN e
                       /\ e.fullname = Lower(Strip(response.data[i].fullname))
                       /\ e.total_tasks = Cardinality(TasksOf(e.fullname))
                       /\ Len(e.tasks) = e.total_tasks
                       /\ e.kompleksitas = StepFunction(e.total_tasks)
        ELSE result = None

\* an answer of two entries one of which is not an object: nothing is
\* returned, the entry that is an object included
C15_Witness ==
    /\ pp_pc = "returned"
    /\ response.kind = "data"
    /\ Len(response.data) = 2
    /\ \E i, j \in 1..2 : IsDict(response.data[i]) /\ ~IsDict(response.data[j])
    /\ result = None

\* the pieces of the text of an answer
Pieces(layout) == {layout[i] : i \in 1..Len(layout)}

\* C16: for both parsers of an answer (extract_with_llm and
\* extract_with_ollama), an answer whose text holds a complete JSON object with a "data" list
\* of objects, alone, in code fences or surrounded by prose, or whose text is
\* that object cut off after one complete entry or more, gives a structured
\* result with the entries of the answer and not None.
C16_RecoveryChain ==
    (/\ pp_pc \in {"returned", "returned_ollama"}
     /\ response.kind = "text"
     /\ \A i \in 1..Len(response.data) : IsDict(response.data[i])
     /\ \/ "object" \in Pieces(response.layout)
        \/ "cut" \in Pieces(response.layout) /\ Len(response.data) >= 1)
    => (result # None /\ Len(result.data) = Len(response.data))

(***************************************************************************)
(* ScanDocument.py: extract_from_pdf and the Task Expander                 *)
(***************************************************************************)
\* some parsed task has a resource that is not blank
ParsedTaskHasResource ==
    \E i \in 1..Len(scan_tasks) :
        \E j \in 1..Len(scan_tasks[i].resources) :
            Strip(scan_tasks[i].resources[j]) # <<>>

\* C18: extract_from_pdf returns None exactly when no parsed task has a
\* non-blank resource; what it returns otherwise has a task list that is not
\* empty, every task of it with a non-blank resource.
C18_NoneExactlyWhenNoResource ==
    scan_pc = "extracted" =>
        /\ (scan_result = None) <=> ~ParsedTaskHasResource
        /\ scan_result # None =>
              /\ scan_result.tasks # <<>>
              /\ \A k \in 1..Len(scan_result.tasks) :
                    Strip(scan_result.tasks[k].resource) # <<>>

\* a document whose lines parse to tasks none of which has a resource
C18_Witness ==
    /\ scan_pc = "extracted"
    /\ Len(scan_tasks) >= 1
    /\ scan_result = None

\* the positions of the non-blank entries of the resources list of task i
Named(i) ==
    {j \in 1..Len(scan_tasks[i].resources) :
        Strip(scan_tasks[i].resources[j]) # <<>>}

\* the number of output tasks of the input tasks ahead of task i
RECURSIVE OutputsBefore(_)
OutputsBefore(i) ==
    IF i = 1 THEN 0 ELSE OutputsBefore(i - 1) + Cardinality(Named(i - 1))

\* the input task an output task comes from
Origin(k) ==
    CHOOSE i \in 1..Len(scan_tasks) :
        OutputsBefore(i) < k /\ k <= OutputsBefore(i + 1)

\* a task dict with the objects it refers to in place of their addresses
View(task, heap) ==
    [id |-> task.id, task_name |-> task.task_name,
     start_date |-> task.start_date, finish_date |-> task.finish_date,
     duration |-> heap[task.duration],
     predecessors |-> heap[task.predecessors].items]

\* C19: the expander turns a task with N > 1 (non-blank) resources into
\* exactly N consecutive output tasks, in the order of the resources, equal
\* to the task in id, task_name, duration, dates and predecessors; each has
\* a duration dict and a predecessors list that no other output task of the
\* task and not the task itself refers to; and after a change to the
\* predecessors or the duration of one of them every other output task and
\* every input task is as it was.
C19_IndependentCopies ==
    /\ scan_pc = "expanded" =>
          /\ Len(scan_expanded) = OutputsBefore(Len(scan_tasks) + 1)
          /\ \A i \in 1..Len(scan_tasks) :
                Cardinality(Named(i)) > 1 =>
                    \A k \in 1..Cardinality(Named(i)) :
                        LET out == scan_expanded[OutputsBefore(i) + k]
                            task == scan_tasks[i]
                        IN  /\ View(out, scan_heap) = View(task, scan_heap)
                            /\ out.resource = task.resources[KthOf(Named(i), k)]
                            /\ out.duration # task.duration
                            /\ out.predecessors # task.predecessors
                            /\ \A m \in 1..Cardinality(Named(i)) :
                                  LET other == scan_expanded[OutputsBefore(i) + m]
                                  IN  m # k =>
                                        /\ other.duration # out.duration
                                        /\ other.predecessors # out.predecessors
    /\ (scan_pc = "changed" /\ Cardinality(Named(Origin(scan_mutated))) > 1) =>
          /\ \A k \in 1..Len(scan_expanded) :
                k # scan_mutated =>
                    View(scan_expanded[k], scan_heap)
                        = View(scan_expanded[k], scan_heap_before)
          /\ \A i \in 1..Len(scan_tasks) :
                View(scan_tasks[i], scan_heap)
                    = View(scan_tasks[i], scan_heap_before)

\* an output task of a task with two resources has been changed
C19_Witness ==
    /\ scan_pc = "changed"
    /\ Cardinality(Named(Origin(scan_mutated))) > 1
    /\ View(scan_expanded[scan_mutated], scan_heap)
          # View(scan_expanded[scan_mutated], scan_heap_before)

OneResourceEach(tasks) ==
    \A k \in 1..Len(tasks) :
        /\ "resource" \in DOMAIN tasks[k]
        /\ "resources" \notin DOMAIN tasks[k]
        /\ tasks[k].resource # <<>>
        /\ Strip(tasks[k].resource) # <<>>

\* C21: every task the expander returns, and every task of the list
\* extract_from_pdf returns, has exactly one resource, not empty and not
\* blank; a task whose resources list is empty or holds blank strings only
\* contributes no output task (the output tasks are, in order, those of the
\* tasks that have a non-blank entry, one per such entry).
C21_OneNonBlankResource ==
    /\ scan_pc = "expanded" =>
          /\ OneResourceEach(scan_expanded)
          /\ Len(scan_expanded) = OutputsBefore(Len(scan_tasks) + 1)
          /\ \A k \in 1..Len(scan_expanded) : Named(Origin(k)) # {}
    /\ (scan_pc = "extracted" /\ scan_result # None) =>
          /\ OneResourceEach(scan_result.tasks)
          /\ Len(scan_result.tasks) = OutputsBefore(Len(scan_tasks) + 1)

\* the expander was given a task with blank resources only next to a task
\* with a resource
C21_Witness ==
    /\ scan_pc = "expanded"
    /\ Len(scan_expanded) >= 1
    /\ \E i \in 1..Len(scan_tasks) :
          scan_tasks[i].resources # <<>> /\ Named(i) = {}

\* C22: in every project extract_from_pdf returns, total_tasks is the length
\* of the task list, total_tasks is at least original_tasks_with_resources,
\* and total_tasks_scanned is at least original_tasks_with_resources.
C22_ProjectCounts ==
    (scan_pc = "extracted" /\ scan_result # None) =>
        /\ scan_result.project.total_tasks = Len(scan_result.tasks)
        /\ scan_result.project.total_tasks
              >= scan_result.project.original_tasks_with_resources
        /\ scan_result.project.total_tasks_scanned
              >= scan_result.project.original_tasks_with_resources

\* a document with a line of two resources and a line of none: the three
\* counts differ
C22_Witness ==
    /\ scan_pc = "extracted"
    /\ scan_result # None
    /\ scan_result.project.total_tasks
          > scan_result.project.original_tasks_with_resources
    /\ scan_result.project.total_tasks_scanned
          > scan_result.project.original_tasks_with_resources

\* the string is YYYY-MM-DD of a date of the calendar
IsIsoDate(v) ==
    /\ Len(v.words) = 1
    /\ v.words[1].w = "iso"
    /\ RealDate(v.words[1].y, v.words[1].m, v.words[1].d)

\* C23: every task the parser produces has a start_date and a finish_date
\* that are each an ISO YYYY-MM-DD string or the empty string; a token that
\* is not a real date (month 13, day 45) gives the empty string, never the
\* token itself.
C23_DatesIsoOrEmpty ==
    scan_pc = "extracted" =>
        \A i \in 1..Len(scan_tasks) :
            /\ IsIsoDate(scan_tasks[i].start_date)
                  \/ scan_tasks[i].start_date = EmptyString
            /\ IsIsoDate(scan_tasks[i].finish_date)
                  \/ scan_tasks[i].finish_date = EmptyString

\* the words of a date string after its weekday name, if it starts with one
AfterWeekday(s) ==
    IF WeekdayAhead(s, AbbrWeekdays \cup FullWeekdays) THEN Tail(s) ELSE s

\* the year, month and day a string of one of the explicit formats writes:
\* M/D/YY, M/D/YYYY, YYYY-MM-DD, Mon D, 'YY, Mon D, YYYY and Month D, YYYY;
\* <<>> for any other string
ExplicitDate(s) ==
    IF Len(s) = 1 /\ s[1].w = "mdy" /\ s[1].digits \in {2, 4}
    THEN << (IF s[1].digits = 2 THEN 2000 + s[1].y ELSE s[1].y),
            s[1].m, s[1].d >>
    ELSE IF Len(s) = 1 /\ s[1].w = "iso"
    THEN << s[1].y, s[1].m, s[1].d >>
    ELSE IF /\ Len(s) = 3
            /\ s[1].w = "word" /\ s[2].w = "day" /\ s[3].w = "year"
            /\ s[2].comma
            /\ \/ /\ MonthNumber(AbbrMonths, s[1].text) # 0
                  /\ s[3].digits = 2 /\ s[3].apostrophe
               \/ /\ MonthNumber(AbbrMonths, s[1].text) # 0
                  /\ s[3].digits = 4 /\ ~s[3].apostrophe
               \/ /\ MonthNumber(FullMonths, s[1].text) # 0
                  /\ s[3].digits = 4 /\ ~s[3].apostrophe
    THEN << (IF s[3].digits = 2 THEN 2000 + s[3].y ELSE s[3].y),
            (IF MonthNumber(AbbrMonths, s[1].text) # 0
             THEN MonthNumber(AbbrMonths, s[1].text)
             ELSE MonthNumber(FullMonths, s[1].text)),
            s[2].d >>
    ELSE <<>>

\* C24: try_parse_date returns the ISO date for every string of the explicit
\* formats that writes a date of the calendar, the month-name forms
\* Mon D, 'YY and Mon D, YYYY included, with or without a weekday name ahead;
\* and the step that strips the weekday prefix leaves a string that does not
\* start with a weekday name as it is (it never takes a month name).
C24_ExplicitFormatsParse ==
    date_pc = "returned" =>
        LET s == date_input.words
            e == ExplicitDate(AfterWeekday(s))
        IN  /\ (e # <<>> /\ RealDate(e[1], e[2], e[3]))
                  => date_result = IsoString(e[1], e[2], e[3])
            /\ ~WeekdayAhead(s, AbbrWeekdays \cup FullWeekdays)
                  => StripLeadingWord(s) = s

\* the names of the comma-joined token of the line
NamesOfLine == SplitComma(line_remaining[Len(line_remaining)])

\* the sequence turned around
Reversed(s) == [i \in 1..Len(s) |-> s[Len(s) + 1 - i]]

\* C25: the resources the parser takes from a comma-joined trailing token
\* are exactly the names of it that pass is_valid_resource_name on their
\* own, whatever their order: the token with its names in the opposite order
\* gives the same set of resources.
C25_CommaListByNames ==
    tokens_pc = "parsed" =>
        /\ Range(line_resources)
              = {name \in Range(NamesOfLine) : IsValidResourceName(name)}
        /\ Range(line_resources)
              = Range(ParseRemaining(
                          <<JoinComma(Reversed(NamesOfLine))>>).resources)

\* C26: no two tasks of the task list extract_from_pdf returns for one
\* document have the same id.
C26_UniqueTaskIds ==
    (scan_pc = "extracted" /\ scan_result # None) =>
        \A k, m \in 1..Len(scan_result.tasks) :
            k # m => scan_result.tasks[k].id # scan_result.tasks[m].id

\* C27: in every person summary test.py returns, from the post-processing of
\* the model's answer or from the fallback extraction, kompleksitas is the
\* step function of the summary's total_tasks.
C27_KompleksitasFromTotalTasks ==
    (test_pc \in {"refined", "fallback"} /\ test_result # None) =>
        \A i \in 1..Len(test_result.data) :
            test_result.data[i].kompleksitas
                = StepFunction(test_result.data[i].total_tasks)

\* C28: in every project entry of every merge output, whether or not its key
\* collided, the task list holds no name twice, total_tasks is the number of
\* names in the task list and kompleksitas is the step function of
\* total_tasks.
C28_EveryEntryConsistent ==
    \A d \in MergeOutputs :
        \A i \in 1..Len(d.people) :
            \A j \in 1..Len(d.people[i].projects) :
                LET entry == d.people[i].projects[j]
                IN  /\ Cardinality(Range(entry.tasks)) = Len(entry.tasks)
                    /\ entry.total_tasks = Len(entry.tasks)
                    /\ entry.kompleksitas = StepFunction(entry.total_tasks)

\* the records of a ledger file as load_processed_files reads it
RecordsOf(file) == Get(LoadProcessedFiles(file), "processed_files", <<>>)

\* C29: when a batch run has written its files, every document recorded in
\* the ledger has the person summaries it gave (their keys and task names)
\* in the persisted dataset,
\* also when the run found the dataset unreadable and started fresh while
\* the ledger was intact.
C29_LedgeredDataPersisted ==
    (pc = "done" /\ processed_count > 0) =>
        \A i \in 1..Len(RecordsOf(tracking_file)) :
            \A given \in summaries_by_hash :
                given.hash = RecordsOf(tracking_file)[i].hash
                    => \E e \in EntriesOfDataset(output_file) :
                          /\ <<e.fullname, e.summary.project>> = given.key
                          /\ given.tasks \subseteq Range(e.summary.tasks)

\* the positions of the extraction calls of the run
ExtractSteps == {i \in 1..Len(io_log) : io_log[i].op = "extract"}

\* C30: the ledger holds at most one record per content hash, and no content
\* hash is passed to extraction twice in one batch, also when the batch
\* scans two files with the same content under different names.
C30_OncePerContentHash ==
    RunStarted =>
        /\ \A i, j \in 1..Len(RecordsOf(tracking_file)) :
              RecordsOf(tracking_file)[i].hash = RecordsOf(tracking_file)[j].hash
                  => i = j
        /\ \A i, j \in ExtractSteps :
              HashOf(io_log[i].arg) = HashOf(io_log[j].arg) => i = j
====
